---- MODULE Spec2Model ----
(***************************************************************************)
(* Model of the antigravity-gemini-mcp credential and dispatch engine:     *)
(*   - selectAccount    (auth module, round-robin counter)                 *)
(*   - getAccessToken   (auth module, token cache and refresh exchange)    *)
(*   - generateContent  (api module, endpoint fallback loop)               *)
(*   - buildRequest, parseResponse, parseSSEResponse (api module)          *)
(*   - the account files (accounts module) and the handler of tool calls   *)
(* Texts (error messages, bodies, model names) are sequences of one-       *)
(* character strings so that String.prototype.includes, split and          *)
(* concatenation are computed rather than assumed.                         *)
(***************************************************************************)
EXTENDS Integers, Sequences, FiniteSets, TLC

VARIABLES
    \* ---- auth module: selectAccount ----
    currentIndex,     \* let currentIndex = 0 (process-wide round-robin counter)
    selectLog,        \* observed selectAccount calls, oldest first
    \* ---- auth module: getAccessToken ----
    tokenCache,       \* const tokenCache = new Map(): email -> entry or NoEntry
    clock,            \* Date.now(), in milliseconds
    tkPc,             \* per caller: position inside getAccessToken
    tkAccount,        \* per caller: the account argument
    tkNow,            \* per caller: the local `now` read at the start of the call
    tkReq,            \* per caller: which entry of tokenRequests is its exchange
    tkOutcome,        \* per caller: how the last call ended
    tokenRequests,    \* exchanges received by the token endpoint, oldest first
    \* ---- api module: generateContent ----
    gcPc,             \* position inside generateContent
    gcModel,          \* options.model
    gcThinking,       \* options.thinking?.type === 'enabled'
    useStreaming,     \* const useStreaming = isThinkingModel(model)
    endpointIdx,      \* index into API_ENDPOINTS of the current loop iteration
    lastError,        \* let lastError = null
    requests,         \* upstream requests sent by this dispatch, oldest first
    responses,        \* what each of those requests was answered with
    gcOutcome,        \* how generateContent ended
    \* ---- accounts module: the two account files ----
    primary,          \* contents of ACCOUNTS_CONFIG_PATH
    fallback,         \* contents of FALLBACK_ACCOUNTS_PATH
    lastOp,           \* the operation that ran last, with what it returned
    \* ---- constants module: isThinkingModel ----
    cmName,           \* the modelName argument
    cmResult,         \* what isThinkingModel returned for it
    \* ---- api module: the request builder and the normalizers, called alone ----
    apiCall,          \* the function called and its arguments
    apiPc,            \* "called" until the function has returned
    apiReturn,        \* what it returned
    \* ---- server module: the handler of tool calls ----
    srvAccounts,      \* let accounts = [] (module level, reloaded by every call)
    srvPc,            \* position of the call under way: "idle", "token" or "api"
    srvTool,          \* request.params.name
    srvModel,         \* args.model || 'gemini-3-flash'
    srvAccount,       \* const account = selectAccount(accounts)
    srvToken,         \* const token = await getAccessToken(account)
    srvEndpoint,      \* index into API_ENDPOINTS of the pending request
    srvSent,          \* upstream requests sent by the call, oldest first
    srvAsked,         \* whether the call sent an exchange to the token endpoint
    srvResult,        \* what the last call ended with
    srvCalls,         \* number of calls received
    \* ---- server module: tool calls under way at the same time ----
    tcAccounts,       \* what loadAccounts() gives every call
    tcPc,             \* per call: "idle", or "suspended" at its first await
    tcTicket,         \* per call: the value of currentIndex selectAccount read
    tcAccount,        \* per call: const account = selectAccount(accounts)
    \* ---- oauth module: the callback server ----
    oaExpected,       \* the expectedState argument
    oaListener,       \* the http server: "starting", "listening", "failed", "closed"
    oaTimer,          \* timeoutId: "armed", "fired" or "cleared"
    oaWait,           \* the promise: pending, resolved with a code, rejected with an error
    oaConn,           \* whether a connection accepted earlier is still open
    oaLast,           \* the request handled last and the status it was answered with
    oaCount,          \* number of requests handled
    oaAborted         \* whether abort() has been called

selectVars == <<currentIndex, selectLog>>
tokenVars == <<tokenCache, clock, tkPc, tkAccount, tkNow, tkReq, tkOutcome, tokenRequests>>
dispatchVars == <<gcPc, gcModel, gcThinking, useStreaming, endpointIdx, lastError, requests, responses, gcOutcome>>
storeVars == <<primary, fallback, lastOp>>
classifyVars == <<cmName, cmResult>>
apiVars == <<apiCall, apiPc, apiReturn>>
serverVars == <<srvAccounts, srvPc, srvTool, srvModel, srvAccount, srvToken, srvEndpoint,
                srvSent, srvAsked, srvResult, srvCalls>>
callVars == <<tcAccounts, tcPc, tcTicket, tcAccount>>
oauthVars == <<oaExpected, oaListener, oaTimer, oaWait, oaConn, oaLast, oaCount, oaAborted>>
restVars == <<storeVars, classifyVars, apiVars, serverVars, callVars, oauthVars>>
vars == <<selectVars, tokenVars, dispatchVars, restVars>>

-----------------------------------------------------------------------------
(* Bounds of the model                                                     *)

MaxSelectCalls == 4
MaxAccounts == 3
MaxExchanges == 3
MaxClock == 2
MaxStored == 2
MaxFragments == 4
MaxToolCalls == 2
MaxParts == 2
MaxFrames == 3

-----------------------------------------------------------------------------
(* Text helpers                                                            *)

Min(a, b) == IF a <= b THEN a ELSE b

\* String.prototype.includes(needle)
Includes(hay, needle) ==
    \E i \in 1..(Len(hay) - Len(needle) + 1) :
        SubSeq(hay, i, i + Len(needle) - 1) = needle

\* index of the first occurrence of character c in s, or Len(s)+1
RECURSIVE FirstIndexOf(_, _, _)
FirstIndexOf(s, c, i) ==
    IF i > Len(s) THEN Len(s) + 1
    ELSE IF s[i] = c THEN i
    ELSE FirstIndexOf(s, c, i + 1)

\* decimal rendering of a non-negative integer, as a template literal does
RECURSIVE DigitsOf(_)
DigitsOf(n) ==
    LET d == << "0", "1", "2", "3", "4", "5", "6", "7", "8", "9" >>
    IN  IF n < 10 THEN << d[n + 1] >>
        ELSE DigitsOf(n \div 10) \o << d[(n % 10) + 1] >>

-----------------------------------------------------------------------------
(* Accounts                                                                *)

Emails == {"a@x", "b@x", "c@x"}

\* refresh credentials as stored: bare, or refreshToken|projectId
RefreshOf(email) ==
    CASE email = "a@x" -> << "r", "a" >>
      [] email = "b@x" -> << "r", "b", "|", "p" >>
      [] OTHER         -> << "r", "c", "|", "p", "|", "m" >>

Account(email) == [email |-> email, refreshToken |-> RefreshOf(email)]

\* the sequences selectAccount can be handed: enabled accounts, unique emails
AccountLists ==
    { s \in UNION { [1..n -> Emails] : n \in 0..MaxAccounts } :
        \A i, j \in 1..Len(s) : i # j => s[i] # s[j] }

-----------------------------------------------------------------------------
(* auth module: selectAccount                                              *)

selectAccountThrows(accounts) == Len(accounts) = 0

selectAccountIndex(accounts, counter) == counter % Len(accounts)

\* variant: the counter is advanced twice
selectAccountNext_Skips(accounts, counter) ==
    IF selectAccountThrows(accounts) THEN counter ELSE counter + 2

\* variant: the counter is advanced before the emptiness check
selectAccountNext_BeforeCheck(accounts, counter) == counter + 1

\* variant: the counter is read but not written back
selectAccountNext_NoAdvance(accounts, counter) == counter

selectAccountNext(accounts, counter) ==
    IF selectAccountThrows(accounts) THEN counter ELSE counter + 1

selectAccount(accounts) ==
    /\ Len(selectLog) < MaxSelectCalls
    /\ currentIndex' = selectAccountNext(accounts, currentIndex)
    /\ selectLog' = Append(selectLog,
          [ accounts |-> accounts,
            before   |-> currentIndex,
            outcome  |-> IF selectAccountThrows(accounts)
                         THEN [ kind |-> "throw", message |-> "No accounts available" ]
                         ELSE [ kind |-> "return",
                                index |-> selectAccountIndex(accounts, currentIndex),
                                account |-> accounts[selectAccountIndex(accounts, currentIndex) + 1] ] ])
    /\ UNCHANGED <<tokenVars, dispatchVars, restVars>>

-----------------------------------------------------------------------------
(* auth module: token cache and refresh exchange                           *)

Callers == {"c1", "c2"}

\* the accounts whose tokens are asked for
TokenEmails == {"a@x", "b@x"}

\* a Map lookup that finds nothing
NoEntry == [ present |-> FALSE ]
\* JavaScript numbers: an integer, or NaN
Num(v) == [ nan |-> FALSE, v |-> v ]
NaN == [ nan |-> TRUE, v |-> 0 ]
\* a JSON field that is absent (undefined)
Absent == [ present |-> FALSE, v |-> 0 ]
Given(v) == [ present |-> TRUE, v |-> v ]

TOKEN_CACHE_TTL_MS == 5 * 60 * 1000
EXPIRY_MARGIN_S == 60

\* granularity of the modelled clock
ClockStep == TOKEN_CACHE_TTL_MS \div 2

\* expires_in values the token endpoint may report (seconds), or no such field
ExpiresInSeconds == {30, 200, 3599}
ExpiresInValues == { Given(v) : v \in ExpiresInSeconds } \cup { Absent }

\* bodies of non-success answers of the token endpoint
TokenErrorBodies == { << "b", "a", "d" >>, << >> }

\* parseRefreshParts(refresh).refreshToken: the segment before the first '|'
parseRefreshToken(refresh) == SubSeq(refresh, 1, FirstIndexOf(refresh, "|", 1) - 1)

\* variant: the comparison with the clock is the wrong way round
CacheValid_Flipped(cached, now) ==
    /\ cached.present
    /\ ~cached.expiresAt.nan
    /\ cached.expiresAt.v < now

\* if (cached && cached.expiresAt > now)
CacheValid(cached, now) ==
    /\ cached.present
    /\ ~cached.expiresAt.nan
    /\ cached.expiresAt.v > now

\* variant: the safety margin is not subtracted
CacheTtl_NoMargin(expiresIn) ==
    IF ~expiresIn.present THEN NaN
    ELSE Num(Min(expiresIn.v * 1000, TOKEN_CACHE_TTL_MS))

\* const ttl = Math.min((expiresIn - 60) * 1000, TOKEN_CACHE_TTL_MS)
CacheTtl(expiresIn) ==
    IF ~expiresIn.present THEN NaN
    ELSE Num(Min((expiresIn.v - EXPIRY_MARGIN_S) * 1000, TOKEN_CACHE_TTL_MS))

\* expiresAt: now + ttl
ExpiresAt(now, ttl) == IF ttl.nan THEN NaN ELSE Num(now + ttl.v)

\* variant: every entry is stored under one and the same key
CacheSet_SharedKey(cache, email, accessToken, now, expiresIn) ==
    [cache EXCEPT !["a@x"] =
        [ present     |-> TRUE,
          accessToken |-> accessToken,
          expiresAt   |-> ExpiresAt(now, CacheTtl(expiresIn)) ]]

\* tokenCache.set(account.email, { accessToken, expiresAt: now + ttl })
CacheSet(cache, email, accessToken, now, expiresIn) ==
    [cache EXCEPT ![email] =
        [ present     |-> TRUE,
          accessToken |-> accessToken,
          expiresAt   |-> ExpiresAt(now, CacheTtl(expiresIn)) ]]

TokenRefreshFailed == << "T", "o", "k", "e", "n", " ", "r", "e", "f", "r", "e", "s", "h", " ",
                         "f", "a", "i", "l", "e", "d", ":", " " >>
FetchFailed == << "f", "e", "t", "c", "h", " ", "f", "a", "i", "l", "e", "d" >>

\* what a finished getAccessToken call leaves behind: the value returned or
\* the error thrown, and what the token endpoint had answered to that call
\* ("none": not asked, "ok", "notok", "neterr"), with expires_in or the body
Returned(email, token, answer, expiresIn) ==
    [ kind |-> "return", email |-> email, token |-> token, message |-> << >>,
      answer |-> answer, expiresIn |-> expiresIn, body |-> << >> ]
Thrown(email, message, answer, body) ==
    [ kind |-> "throw", email |-> email, token |-> 0, message |-> message,
      answer |-> answer, expiresIn |-> Absent, body |-> body ]
NoOutcome ==
    [ kind |-> "none", email |-> "", token |-> 0, message |-> << >>,
      answer |-> "none", expiresIn |-> Absent, body |-> << >> ]

\* getAccessToken, cache hit: return cached.accessToken
getAccessTokenHit(p, email) ==
    /\ tkPc[p] = "idle"
    /\ CacheValid(tokenCache[email], clock)
    /\ tkOutcome' = [tkOutcome EXCEPT ![p] =
          Returned(email, tokenCache[email].accessToken, "none", Absent)]
    /\ UNCHANGED <<tokenCache, clock, tkPc, tkAccount, tkNow, tkReq, tokenRequests>>
    /\ UNCHANGED <<selectVars, dispatchVars, restVars>>

\* variant: a call that misses while another call is already in an exchange
\* for the same email joins that exchange instead of sending its own
getAccessTokenMiss_SingleFlight(p, email) ==
    /\ tkPc[p] = "idle"
    /\ ~CacheValid(tokenCache[email], clock)
    /\ Len(tokenRequests) < MaxExchanges
    /\ tkAccount' = [tkAccount EXCEPT ![p] = email]
    /\ tkNow' = [tkNow EXCEPT ![p] = clock]
    /\ IF \E q \in Callers : tkPc[q] = "refreshing" /\ tkAccount[q] = email
       THEN /\ tokenRequests' = tokenRequests
            /\ tkReq' = [tkReq EXCEPT ![p] =
                   tkReq[CHOOSE q \in Callers : tkPc[q] = "refreshing" /\ tkAccount[q] = email]]
       ELSE /\ tokenRequests' = Append(tokenRequests,
                   [ caller        |-> p,
                     email         |-> email,
                     refresh_token |-> parseRefreshToken(Account(email).refreshToken) ])
            /\ tkReq' = [tkReq EXCEPT ![p] = Len(tokenRequests) + 1]
    /\ tkPc' = [tkPc EXCEPT ![p] = "refreshing"]
    /\ tkOutcome' = [tkOutcome EXCEPT ![p] = NoOutcome]
    /\ UNCHANGED <<tokenCache, clock>>
    /\ UNCHANGED <<selectVars, dispatchVars, restVars>>

\* variant: a miss drops the entry it found unusable
getAccessTokenMiss_DropsExpired(p, email) ==
    /\ tkPc[p] = "idle"
    /\ ~CacheValid(tokenCache[email], clock)
    /\ Len(tokenRequests) < MaxExchanges
    /\ tkAccount' = [tkAccount EXCEPT ![p] = email]
    /\ tkNow' = [tkNow EXCEPT ![p] = clock]
    /\ tokenRequests' = Append(tokenRequests,
          [ caller        |-> p,
            email         |-> email,
            refresh_token |-> parseRefreshToken(Account(email).refreshToken) ])
    /\ tkReq' = [tkReq EXCEPT ![p] = Len(tokenRequests) + 1]
    /\ tkPc' = [tkPc EXCEPT ![p] = "refreshing"]
    /\ tkOutcome' = [tkOutcome EXCEPT ![p] = NoOutcome]
    /\ tokenCache' = [tokenCache EXCEPT ![email] = NoEntry]
    /\ UNCHANGED clock
    /\ UNCHANGED <<selectVars, dispatchVars, restVars>>

\* getAccessToken, cache miss: refreshAccessToken(account.refreshToken) sends the exchange
getAccessTokenMiss(p, email) ==
    /\ tkPc[p] = "idle"
    /\ ~CacheValid(tokenCache[email], clock)
    /\ Len(tokenRequests) < MaxExchanges
    /\ tkAccount' = [tkAccount EXCEPT ![p] = email]
    /\ tkNow' = [tkNow EXCEPT ![p] = clock]
    /\ tokenRequests' = Append(tokenRequests,
          [ caller        |-> p,
            email         |-> email,
            refresh_token |-> parseRefreshToken(Account(email).refreshToken) ])
    /\ tkReq' = [tkReq EXCEPT ![p] = Len(tokenRequests) + 1]
    /\ tkPc' = [tkPc EXCEPT ![p] = "refreshing"]
    /\ tkOutcome' = [tkOutcome EXCEPT ![p] = NoOutcome]
    /\ UNCHANGED <<tokenCache, clock>>
    /\ UNCHANGED <<selectVars, dispatchVars, restVars>>

\* the locals of a call are gone once it has ended
EndCall(p) ==
    /\ tkPc' = [tkPc EXCEPT ![p] = "idle"]
    /\ tkAccount' = [tkAccount EXCEPT ![p] = ""]
    /\ tkNow' = [tkNow EXCEPT ![p] = 0]
    /\ tkReq' = [tkReq EXCEPT ![p] = 0]

\* the access token the token endpoint issues for an exchange: every exchange
\* is given its own (the serial number of the exchange)
IssuedToken(req) == req

\* the token endpoint answers 200 with { access_token, expires_in }
RefreshOk(p, expiresIn) ==
    /\ tkPc[p] = "refreshing"
    /\ tokenCache' = CacheSet(tokenCache, tkAccount[p], IssuedToken(tkReq[p]), tkNow[p], expiresIn)
    /\ tkOutcome' = [tkOutcome EXCEPT ![p] =
          Returned(tkAccount[p], IssuedToken(tkReq[p]), "ok", expiresIn)]
    /\ EndCall(p)
    /\ UNCHANGED <<clock, tokenRequests>>
    /\ UNCHANGED <<selectVars, dispatchVars, restVars>>

\* variant: a failed refresh drops the entry of that email
RefreshNotOk_Evicts(p, body) ==
    /\ tkPc[p] = "refreshing"
    /\ tkOutcome' = [tkOutcome EXCEPT ![p] =
          Thrown(tkAccount[p], TokenRefreshFailed \o body, "notok", body)]
    /\ tokenCache' = [tokenCache EXCEPT ![tkAccount[p]] = NoEntry]
    /\ EndCall(p)
    /\ UNCHANGED <<clock, tokenRequests>>
    /\ UNCHANGED <<selectVars, dispatchVars, restVars>>

\* the token endpoint answers with a non-success status:
\* throw new Error(`Token refresh failed: ${error}`)
RefreshNotOk(p, body) ==
    /\ tkPc[p] = "refreshing"
    /\ tkOutcome' = [tkOutcome EXCEPT ![p] = 
          Thrown(tkAccount[p], TokenRefreshFailed \o body, "notok", body)]
    /\ EndCall(p)
    /\ UNCHANGED <<tokenCache, clock, tokenRequests>>
    /\ UNCHANGED <<selectVars, dispatchVars, restVars>>

\* the fetch of the token endpoint itself rejects (network failure)
RefreshFetchFails(p) ==
    /\ tkPc[p] = "refreshing"
    /\ tkOutcome' = [tkOutcome EXCEPT ![p] = Thrown(tkAccount[p], FetchFailed, "neterr", << >>)]
    /\ EndCall(p)
    /\ UNCHANGED <<tokenCache, clock, tokenRequests>>
    /\ UNCHANGED <<selectVars, dispatchVars, restVars>>

\* time passes
Tick ==
    /\ clock < MaxClock * ClockStep
    /\ clock' = clock + ClockStep
    /\ UNCHANGED <<tokenCache, tkPc, tkAccount, tkNow, tkReq, tkOutcome, tokenRequests>>
    /\ UNCHANGED <<selectVars, dispatchVars, restVars>>

\* clearTokenCache(email): if (email) tokenCache.delete(email) else
\* tokenCache.clear(); the empty text stands for null, undefined and ''
clearTokenCache(email) ==
    /\ tokenCache' = IF email # "" THEN [tokenCache EXCEPT ![email] = NoEntry]
                     ELSE [ e \in Emails |-> NoEntry ]
    /\ UNCHANGED <<clock, tkPc, tkAccount, tkNow, tkReq, tkOutcome, tokenRequests>>
    /\ UNCHANGED <<selectVars, dispatchVars, restVars>>

-----------------------------------------------------------------------------
(* constants module                                                        *)

\* API_ENDPOINTS, in fallback order
API_ENDPOINTS == << "https://daily-cloudcode-pa.googleapis.com",
                    "https://cloudcode-pa.googleapis.com" >>

Digits == { "0", "1", "2", "3", "4", "5", "6", "7", "8", "9" }

\* String.prototype.toLowerCase, on the letters the model names use
LowerChar(c) ==
    CASE c = "G" -> "g" [] c = "T" -> "t" [] c = "F" -> "f" [] c = "P" -> "p"
      [] OTHER -> c

ToLower(s) == [ i \in 1..Len(s) |-> LowerChar(s[i]) ]

\* parseInt(digits, 10)
RECURSIVE ParseInt(_)
ParseInt(ds) ==
    IF Len(ds) = 0 THEN 0
    ELSE 10 * ParseInt(SubSeq(ds, 1, Len(ds) - 1))
         + (CHOOSE n \in 0..9 : DigitsOf(n) = << ds[Len(ds)] >>)

\* end of the run of digits that starts at position i
RECURSIVE DigitRunEnd(_, _)
DigitRunEnd(s, i) ==
    IF i <= Len(s) /\ s[i] \in Digits THEN DigitRunEnd(s, i + 1) ELSE i - 1

GeminiDash == << "g", "e", "m", "i", "n", "i", "-" >>
Thinking == << "t", "h", "i", "n", "k", "i", "n", "g" >>

\* lower.match(/gemini-(\d+)/): the positions where the pattern matches
VersionMatches(lower) ==
    { i \in 1..Len(lower) :
        /\ i + Len(GeminiDash) <= Len(lower)
        /\ SubSeq(lower, i, i + Len(GeminiDash) - 1) = GeminiDash
        /\ lower[i + Len(GeminiDash)] \in Digits }

isThinkingModel_AnyMatch(modelName) ==
    LET lower == ToLower(modelName)
    IN  \/ Includes(lower, Thinking)
        \/ \E i \in VersionMatches(lower) :
              ParseInt(SubSeq(lower, i + Len(GeminiDash),
                              DigitRunEnd(lower, i + Len(GeminiDash)))) >= 3
isThinkingModel(modelName) ==
    LET lower == ToLower(modelName)
        ms    == VersionMatches(lower)
        first == CHOOSE i \in ms : \A j \in ms : i <= j
        from  == first + Len(GeminiDash)
    IN  \/ Includes(lower, Thinking)
        \/ /\ ms # {}
           /\ ParseInt(SubSeq(lower, from, DigitRunEnd(lower, from))) >= 3

\* model ids a caller may ask for
Models == { << "g", "e", "m", "i", "n", "i", "-", "3", "-", "f", "l", "a", "s", "h" >>,
            << "g", "e", "m", "i", "n", "i", "-", "2", ".", "5", "-", "f", "l", "a", "s", "h" >>,
            << "G", "e", "m", "i", "n", "i", "-", "2", ".", "5", "-", "f", "l", "a", "s", "h", "-", "T", "h", "i", "n", "k", "i", "n", "g" >> }

-----------------------------------------------------------------------------
(* api module: response normalizers                                        *)

\* A JSON document of the upstream API.  depth counts the {response: ...}
\* envelopes around the payload; usage is usageMetadata; a candidate is
\* [finishReason, parts] with "" for an absent finishReason; a part is
\* [thought, text] with the empty text for an absent field.
Doc(depth, usage, candidates) ==
    [ depth |-> depth, usage |-> usage, candidates |-> candidates ]

Part(thought, text) == [ thought |-> thought, text |-> text ]

\* variant: no envelope is taken off
Unwrap_Never(data) == data

\* data.response || data
Unwrap(data) == IF data.depth > 0 THEN [data EXCEPT !.depth = @ - 1] ELSE data

\* the fields visible at the top level of a document
UsageOf(data) == IF data.depth = 0 THEN data.usage ELSE Absent
CandidatesOf(data) == IF data.depth = 0 THEN data.candidates ELSE << >>

\* reasonMap[candidate.finishReason] || 'end_turn'   (parseResponse)
reasonMap(finishReason) ==
    CASE finishReason = "STOP"       -> "end_turn"
      [] finishReason = "MAX_TOKENS" -> "max_tokens"
      [] finishReason = "SAFETY"     -> "content_filter"
      [] finishReason = "RECITATION" -> "content_filter"
      [] OTHER                       -> "end_turn"

\* reasonMap[candidate.finishReason] || 'end_turn'   (parseSSEResponse)
reasonMapSSE(finishReason) ==
    CASE finishReason = "STOP"       -> "end_turn"
      [] finishReason = "MAX_TOKENS" -> "max_tokens"
      [] finishReason = "SAFETY"     -> "content_filter"
      [] OTHER                       -> "end_turn"

\* the loop over candidate.content?.parts of parseResponse
RECURSIVE ContentBlocks(_)
ContentBlocks(parts) ==
    IF Len(parts) = 0 THEN << >>
    ELSE LET part == Head(parts)
             block == IF Len(part.thought) > 0
                      THEN << [ type |-> "thinking", text |-> part.thought ] >>
                      ELSE IF Len(part.text) > 0
                      THEN << [ type |-> "text", text |-> part.text ] >>
                      ELSE << >>
         IN  block \o ContentBlocks(Tail(parts))

\* variant: the last candidate is used instead of the first
parseResponse_LastCandidate(data, model) ==
    LET usage == UsageOf(data)
        cands == CandidatesOf(data)
        last  == Len(cands)
    IN  [ model       |-> model,
          content     |-> IF Len(cands) = 0 THEN << >> ELSE ContentBlocks(cands[last].parts),
          usage       |-> [ input_tokens  |-> IF usage.present THEN usage.v[1] ELSE 0,
                            output_tokens |-> IF usage.present THEN usage.v[2] ELSE 0 ],
          stop_reason |-> IF Len(cands) = 0 \/ cands[last].finishReason = ""
                          THEN "end_turn"
                          ELSE reasonMap(cands[last].finishReason) ]

parseResponse(data, model) ==
    LET usage == UsageOf(data)
        cands == CandidatesOf(data)
    IN  [ model       |-> model,
          content     |-> IF Len(cands) = 0 THEN << >> ELSE ContentBlocks(cands[1].parts),
          usage       |-> [ input_tokens  |-> IF usage.present THEN usage.v[1] ELSE 0,
                            output_tokens |-> IF usage.present THEN usage.v[2] ELSE 0 ],
          stop_reason |-> IF Len(cands) = 0 \/ cands[1].finishReason = ""
                          THEN "end_turn"
                          ELSE reasonMap(cands[1].finishReason) ]

\* thinkingText / responseText accumulated over the parts of one frame
RECURSIVE AccumulateParts(_, _)
AccumulateParts(acc, parts) ==
    IF Len(parts) = 0 THEN acc
    ELSE LET part == Head(parts)
             next == IF Len(part.thought) > 0
                     THEN [acc EXCEPT !.thinkingText = @ \o part.thought]
                     ELSE IF Len(part.text) > 0
                     THEN [acc EXCEPT !.responseText = @ \o part.text]
                     ELSE acc
         IN  AccumulateParts(next, Tail(parts))

\* variant: the usage counts of the frames are added up
SSELine_SumsUsage(acc, line) ==
    IF ~line.marker \/ ~line.json.present THEN acc
    ELSE LET data  == Unwrap(line.json.v)
             usage == UsageOf(data)
             cands == CandidatesOf(data)
             a1 == IF usage.present
                   THEN [acc EXCEPT !.input_tokens = @ + usage.v[1],
                                    !.output_tokens = @ + usage.v[2]]
                   ELSE acc
             a2 == IF Len(cands) > 0 THEN AccumulateParts(a1, cands[1].parts) ELSE a1
         IN  IF Len(cands) > 0 /\ cands[1].finishReason # ""
             THEN [a2 EXCEPT !.stop_reason = reasonMapSSE(cands[1].finishReason)]
             ELSE a2

\* variant: a payload that is not JSON drops the texts accumulated before it
SSELine_MalformedResets(acc, line) ==
    IF ~line.marker THEN acc
    ELSE IF ~line.json.present
    THEN [acc EXCEPT !.thinkingText = << >>, !.responseText = << >>]
    ELSE LET data  == Unwrap(line.json.v)
             usage == UsageOf(data)
             cands == CandidatesOf(data)
             a1 == IF usage.present
                   THEN [acc EXCEPT !.input_tokens = usage.v[1], !.output_tokens = usage.v[2]]
                   ELSE acc
             a2 == IF Len(cands) > 0 THEN AccumulateParts(a1, cands[1].parts) ELSE a1
         IN  IF Len(cands) > 0 /\ cands[1].finishReason # ""
             THEN [a2 EXCEPT !.stop_reason = reasonMapSSE(cands[1].finishReason)]
             ELSE a2

\* the body of the loop over lines of parseSSEResponse.  A line is
\* [marker, json]: marker says whether it starts with 'data: ', json is the
\* parsed payload or Absent when JSON.parse throws.
SSELine(acc, line) ==
    IF ~line.marker \/ ~line.json.present THEN acc
    ELSE LET data  == Unwrap(line.json.v)
             usage == UsageOf(data)
             cands == CandidatesOf(data)
             a1 == IF usage.present
                   THEN [acc EXCEPT !.input_tokens = usage.v[1], !.output_tokens = usage.v[2]]
                   ELSE acc
             a2 == IF Len(cands) > 0 THEN AccumulateParts(a1, cands[1].parts) ELSE a1
         IN  IF Len(cands) > 0 /\ cands[1].finishReason # ""
             THEN [a2 EXCEPT !.stop_reason = reasonMapSSE(cands[1].finishReason)]
             ELSE a2

RECURSIVE SSELines(_, _)
SSELines(acc, lines) ==
    IF Len(lines) = 0 THEN acc ELSE SSELines(SSELine(acc, Head(lines)), Tail(lines))

\* variant: the text block is pushed before the thinking block
parseSSEResponse_TextFirst(lines, model) ==
    LET acc == SSELines([ input_tokens |-> 0, output_tokens |-> 0, stop_reason |-> "end_turn",
                          thinkingText |-> << >>, responseText |-> << >> ], lines)
    IN  [ model       |-> model,
          content     |-> (IF Len(acc.responseText) > 0
                           THEN << [ type |-> "text", text |-> acc.responseText ] >>
                           ELSE << >>)
                          \o
                          (IF Len(acc.thinkingText) > 0
                           THEN << [ type |-> "thinking", text |-> acc.thinkingText ] >>
                           ELSE << >>),
          usage       |-> [ input_tokens |-> acc.input_tokens, output_tokens |-> acc.output_tokens ],
          stop_reason |-> acc.stop_reason ]

parseSSEResponse(lines, model) ==
    LET acc == SSELines([ input_tokens |-> 0, output_tokens |-> 0, stop_reason |-> "end_turn",
                          thinkingText |-> << >>, responseText |-> << >> ], lines)
    IN  [ model       |-> model,
          content     |-> (IF Len(acc.thinkingText) > 0
                           THEN << [ type |-> "thinking", text |-> acc.thinkingText ] >>
                           ELSE << >>)
                          \o
                          (IF Len(acc.responseText) > 0
                           THEN << [ type |-> "text", text |-> acc.responseText ] >>
                           ELSE << >>),
          usage       |-> [ input_tokens |-> acc.input_tokens, output_tokens |-> acc.output_tokens ],
          stop_reason |-> acc.stop_reason ]

-----------------------------------------------------------------------------
(* api module: what the upstream may answer                                *)

SampleUsage == Given(<< 3, 5 >>)

SampleDoc ==
    Doc(0, SampleUsage,
        << [ finishReason |-> "STOP",
             parts |-> << Part(<< "t" >>, << >>), Part(<< >>, << "x" >>) >> ] >>)

\* the same payload inside one {response: ...} envelope
WrappedDoc == [SampleDoc EXCEPT !.depth = 1]

Line(marker, json) == [ marker |-> marker, json |-> json ]

SampleLines ==
    << Line(TRUE, Given(Doc(1, Absent,
                << [ finishReason |-> "", parts |-> << Part(<< "t" >>, << >>) >> ] >>))),
       Line(FALSE, Absent),
       Line(TRUE, Absent),
       Line(TRUE, Given(Doc(0, SampleUsage,
                << [ finishReason |-> "MAX_TOKENS", parts |-> << Part(<< >>, << "x" >>) >> ] >>))) >>

TextBody(text) == [ form |-> "text", text |-> text, doc |-> SampleDoc, lines |-> << >> ]
JsonBody(doc) == [ form |-> "json", text |-> << >>, doc |-> doc, lines |-> << >> ]
SSEBody(lines) == [ form |-> "sse", text |-> << >>, doc |-> SampleDoc, lines |-> lines ]

\* bodies sent along with a success status
SuccessBodies ==
    { JsonBody(SampleDoc), JsonBody(WrappedDoc), SSEBody(SampleLines),
      TextBody(<< "<" >>), TextBody(<< "i", "n", "v", "a", "l", "i", "d" >>) }

\* texts sent along with an error status
ErrorTexts == { << >>, << "n", "o", "t", " ", "f", "o", "u", "n", "d" >>, << "i", "n", "v", "a", "l", "i", "d" >>, << "4", "0", "0" >> }

\* statuses the upstream may answer with
ErrorStatuses == { 400, 401, 404, 429, 500, 503 }
SuccessStatuses == { 200 }

\* messages of the errors fetch itself rejects with
NetworkErrors == { FetchFailed, << "i", "n", "v", "a", "l", "i", "d", " ", "h", "e", "a", "d", "e", "r" >> }

ApiErrorPrefix == << "A", "P", "I", " ", "e", "r", "r", "o", "r", " " >>
UnexpectedToken == << "U", "n", "e", "x", "p", "e", "c", "t", "e", "d", " ", "t", "o", "k", "e", "n", " " >>
AllEndpointsFailed == << "A", "l", "l", " ", "e", "n", "d", "p", "o", "i", "n", "t", "s", " ", "f", "a", "i", "l", "e", "d" >>

\* await response.json(): the parsed document, or Absent when it throws
BodyJson(body) == IF body.form = "json" THEN Given(body.doc) ELSE Absent

\* the message of the SyntaxError response.json() throws, which quotes the text
JsonErrorMessage(body) ==
    UnexpectedToken \o (IF body.form = "sse" THEN << "d" >> ELSE body.text)

\* (await response.text()).split('\n'), each line offered to JSON.parse
BodyLines(body) == IF body.form = "sse" THEN body.lines ELSE << Line(FALSE, Absent) >>

-----------------------------------------------------------------------------
(* api module: generateContent                                             *)

NoError == [ present |-> FALSE, message |-> << >> ]
Error(message) == [ present |-> TRUE, message |-> message ]

\* new Error(`API error ${response.status}: ${errorText}`)
ApiError(status, errorText) ==
    Error(ApiErrorPrefix \o DigitsOf(status) \o << ":", " " >> \o errorText)

\* response.ok
ResponseOk(status) == status >= 200 /\ status <= 299

\* variant: 429 is not exempted from the fatal statuses
IsFatalStatus_No429Exemption(status) == status >= 400 /\ status < 500

\* if (response.status >= 400 && response.status < 500 && response.status !== 429)
IsFatalStatus(status) == status >= 400 /\ status < 500 /\ status # 429

\* catch (error): if (error.message?.includes('400') || error.message?.includes('invalid'))
CatchRethrows(error) ==
    \/ Includes(error.message, << "4", "0", "0" >>)
    \/ Includes(error.message, << "i", "n", "v", "a", "l", "i", "d" >>)

Return(result) == [ act |-> "return", result |-> result, error |-> NoError ]
Throw(error) == [ act |-> "throw", result |-> << >>, error |-> error ]
Continue(error) == [ act |-> "next", result |-> << >>, error |-> error ]

\* the catch block: lastError = error, then rethrow or fall out to the loop
Catch(error) == IF CatchRethrows(error) THEN Throw(error) ELSE Continue(error)

\* one iteration of the loop over API_ENDPOINTS, from the answer onwards
Iteration(resp, streaming, model) ==
    IF resp.kind = "neterr" THEN Catch(Error(resp.message))
    ELSE IF ~ResponseOk(resp.status)
         THEN IF IsFatalStatus(resp.status)
              THEN Catch(ApiError(resp.status, resp.body.text))
              ELSE Continue(ApiError(resp.status, resp.body.text))
    ELSE IF streaming THEN Return(<< parseSSEResponse(BodyLines(resp.body), model) >>)
    ELSE IF BodyJson(resp.body).present
         THEN Return(<< parseResponse(Unwrap(BodyJson(resp.body).v), model) >>)
         ELSE Catch(Error(JsonErrorMessage(resp.body)))

\* variant: the generic error replaces the recorded one
Exhausted_AlwaysGeneric(error) == Error(AllEndpointsFailed)

\* throw lastError || new Error('All endpoints failed')
Exhausted(error) == IF error.present THEN error ELSE Error(AllEndpointsFailed)

\* the url and the Accept header of buildHeaders(token, acceptType)
Request(idx, streaming) ==
    [ endpoint |-> API_ENDPOINTS[idx],
      path     |-> IF streaming THEN "/v1internal:streamGenerateContent?alt=sse"
                                ELSE "/v1internal:generateContent",
      accept   |-> IF streaming THEN "text/event-stream" ELSE "application/json" ]

\* variant: the transport follows the thinking option as well
UseStreaming_FollowsToggle(model, thinking) == thinking /\ isThinkingModel(model)

\* const useStreaming = isThinkingModel(model)
UseStreaming(model, thinking) == isThinkingModel(model)

\* generateContent(token, options, projectId) up to its first await
generateContent(model, thinking) ==
    /\ gcPc = "idle"
    /\ gcModel' = model
    /\ gcThinking' = thinking
    /\ useStreaming' = UseStreaming(model, thinking)
    /\ lastError' = NoError
    /\ endpointIdx' = 1
    /\ requests' = << Request(1, UseStreaming(model, thinking)) >>
    /\ gcPc' = "awaiting"
    /\ UNCHANGED <<responses, gcOutcome>>
    /\ UNCHANGED <<selectVars, tokenVars, restVars>>

\* variant: after the last endpoint the loop starts over at the first one
Settle_StartsOver(resp) ==
    LET step == Iteration(resp, useStreaming, gcModel)
    IN  /\ gcPc = "awaiting"
        /\ responses' = Append(responses, resp)
        /\ lastError' = IF step.act = "return" THEN lastError ELSE step.error
        /\ IF step.act = "return"
           THEN /\ gcOutcome' = [ kind |-> "return", result |-> step.result, error |-> NoError ]
                /\ gcPc' = "done"
                /\ UNCHANGED <<endpointIdx, requests>>
           ELSE IF step.act = "throw"
           THEN /\ gcOutcome' = [ kind |-> "throw", result |-> << >>, error |-> step.error ]
                /\ gcPc' = "done"
                /\ UNCHANGED <<endpointIdx, requests>>
           ELSE IF Len(requests) < 2 * Len(API_ENDPOINTS)
           THEN /\ endpointIdx' = (endpointIdx % Len(API_ENDPOINTS)) + 1
                /\ requests' = Append(requests,
                                      Request((endpointIdx % Len(API_ENDPOINTS)) + 1, useStreaming))
                /\ UNCHANGED <<gcPc, gcOutcome>>
           ELSE /\ gcOutcome' = [ kind |-> "throw", result |-> << >>,
                                  error |-> Exhausted(step.error) ]
                /\ gcPc' = "done"
                /\ UNCHANGED <<endpointIdx, requests>>
        /\ UNCHANGED <<gcModel, gcThinking, useStreaming>>
        /\ UNCHANGED <<selectVars, tokenVars, restVars>>

\* the rest of the loop iteration once the pending fetch has settled
Settle(resp) ==
    LET step == Iteration(resp, useStreaming, gcModel)
    IN  /\ gcPc = "awaiting"
        /\ responses' = Append(responses, resp)
        /\ lastError' = IF step.act = "return" THEN lastError ELSE step.error
        /\ IF step.act = "return"
           THEN /\ gcOutcome' = [ kind |-> "return", result |-> step.result, error |-> NoError ]
                /\ gcPc' = "done"
                /\ UNCHANGED <<endpointIdx, requests>>
           ELSE IF step.act = "throw"
           THEN /\ gcOutcome' = [ kind |-> "throw", result |-> << >>, error |-> step.error ]
                /\ gcPc' = "done"
                /\ UNCHANGED <<endpointIdx, requests>>
           ELSE IF endpointIdx < Len(API_ENDPOINTS)
           THEN /\ endpointIdx' = endpointIdx + 1
                /\ requests' = Append(requests, Request(endpointIdx + 1, useStreaming))
                /\ UNCHANGED <<gcPc, gcOutcome>>
           ELSE /\ gcOutcome' = [ kind |-> "throw", result |-> << >>,
                                  error |-> Exhausted(step.error) ]
                /\ gcPc' = "done"
                /\ UNCHANGED <<endpointIdx, requests>>
        /\ UNCHANGED <<gcModel, gcThinking, useStreaming>>
        /\ UNCHANGED <<selectVars, tokenVars, restVars>>

\* fetch rejects
FetchRejects(message) == Settle([ kind |-> "neterr", message |-> message,
                                  status |-> 0, body |-> TextBody(<< >>) ])

\* the endpoint answers with an error status
RespondsNotOk(status, text) == Settle([ kind |-> "http", message |-> << >>,
                                        status |-> status, body |-> TextBody(text) ])

\* the endpoint answers with a success status
RespondsOk(status, body) == Settle([ kind |-> "http", message |-> << >>,
                                     status |-> status, body |-> body ])

-----------------------------------------------------------------------------
(* accounts module: the account files and their readers and writers        *)

\* A file is absent, holds text that is not JSON ("malformed"), holds the
\* JSON value null, holds an object without an accounts field ("nofield"),
\* or holds an object whose accounts field is a list of records ("json").
FileOf(kind) == [ kind |-> kind, accounts |-> << >> ]
File(accounts) == [ kind |-> "json", accounts |-> accounts ]

\* an account record as persisted; enabled is "true", "false" or "absent"
StoreRecord(email, refreshToken, enabled, isInvalid, invalid) ==
    [ email |-> email, refreshToken |-> refreshToken, enabled |-> enabled,
      isInvalid |-> isInvalid, invalid |-> invalid ]

\* existsSync(path)
Exists(file) == file.kind # "absent"

\* JSON.parse(readFileSync(path, 'utf-8')) followed by data.accounts: throws
\* for text that is not JSON and for null
ReadThrows(file) == file.kind \in { "malformed", "null" }

\* data.accounts || []
ReadAccounts(file) == IF file.kind = "json" THEN file.accounts ELSE << >>

\* variant: only the read of the primary location sits in a try block
Caught_PrimaryOnly(location) == location = "primary"

\* the reads of loadAccounts that sit in a try block with a catch that goes on
Caught(location) == location \in { "primary", "fallback" }

\* an exception leaves loadAccounts when a read throws outside a catch
loadAccountsRaises(own, fb) ==
    \/ Exists(own) /\ ReadThrows(own) /\ ~Caught("primary")
    \/ /\ ~(Exists(own) /\ ~ReadThrows(own))
       /\ Exists(fb) /\ ReadThrows(fb) /\ ~Caught("fallback")

\* loadAccounts() of the accounts module
loadAccounts(own, fb) ==
    IF Exists(own) /\ ~ReadThrows(own) THEN ReadAccounts(own)
    ELSE IF Exists(fb) /\ ~ReadThrows(fb) THEN ReadAccounts(fb)
    ELSE << >>

\* a => a.enabled !== false && !a.isInvalid
IsEnabled_IgnoresFlag(a) == a.enabled # "false"
IsEnabled(a) == a.enabled # "false" /\ ~a.isInvalid

\* getEnabledAccounts()
getEnabledAccounts(own, fb) == SelectSeq(loadAccounts(own, fb), IsEnabled)

\* loadAccountsFromOwnConfig()
loadAccountsFromOwnConfig(own) ==
    IF ~Exists(own) THEN << >>
    ELSE IF ReadThrows(own) THEN << >>
    ELSE ReadAccounts(own)

\* loadFallbackAccounts()
loadFallbackAccounts(fb) ==
    IF ~Exists(fb) THEN << >>
    ELSE IF ReadThrows(fb) THEN << >>
    ELSE ReadAccounts(fb)

\* accounts.findIndex(a => a.email === email), 0 when there is none
FindIndex(accounts, email) ==
    IF \E i \in 1..Len(accounts) : accounts[i].email = email
    THEN CHOOSE i \in 1..Len(accounts) :
            /\ accounts[i].email = email
            /\ \A j \in 1..(i - 1) : accounts[j].email # email
    ELSE 0

\* the list addAccount saves: the record of that email updated in place, or a
\* new record pushed at the end (timestamps are not modelled)
AddedAccounts_AlwaysAppends(accounts, email, refreshToken) ==
    Append(accounts, StoreRecord(email, refreshToken, "true", FALSE, FALSE))
AddedAccounts(accounts, email, refreshToken) ==
    IF FindIndex(accounts, email) > 0
    THEN [accounts EXCEPT ![FindIndex(accounts, email)].refreshToken = refreshToken]
    ELSE Append(accounts, StoreRecord(email, refreshToken, "true", FALSE, FALSE))

\* accounts.filter(a => a.email !== email)
RemovedAccounts(accounts, email) ==
    LET Keeps(a) == a.email # email IN SelectSeq(accounts, Keeps)

\* what an operation leaves in lastOp: its name and what it returned
Op(name) ==
    [ op |-> name, email |-> "", refreshToken |-> << >>,
      accounts |-> << >>, own |-> << >>, fb |-> << >>,
      flag |-> FALSE, raised |-> FALSE, count |-> 0 ]

\* saveAccounts(accounts): writeFileSync(ACCOUNTS_CONFIG_PATH, ...)
saveAccounts(accounts) ==
    /\ primary' = File(accounts)
    /\ fallback' = fallback

\* a call of one of the reading functions: loadAccounts, getEnabledAccounts
\* and listAccounts of the accounts module, loadAccounts of the auth module
\* (which throws when no account is enabled)
Read(op) ==
    /\ lastOp' =
          IF op = "loadAccounts"
          THEN [Op(op) EXCEPT
                   !.raised = loadAccountsRaises(primary, fallback),
                   !.accounts = IF loadAccountsRaises(primary, fallback) THEN << >>
                                ELSE loadAccounts(primary, fallback)]
          ELSE IF op = "getEnabledAccounts"
          THEN [Op(op) EXCEPT
                   !.raised = loadAccountsRaises(primary, fallback),
                   !.accounts = IF loadAccountsRaises(primary, fallback) THEN << >>
                                ELSE getEnabledAccounts(primary, fallback)]
          ELSE IF op = "auth.loadAccounts"
          THEN [Op(op) EXCEPT
                   !.accounts = getEnabledAccounts(primary, fallback),
                   !.flag = (Len(getEnabledAccounts(primary, fallback)) = 0)]
          ELSE [Op(op) EXCEPT
                   !.own = loadAccountsFromOwnConfig(primary),
                   !.fb = loadFallbackAccounts(fallback),
                   !.accounts = IF Len(loadAccountsFromOwnConfig(primary)) > 0
                                THEN loadAccountsFromOwnConfig(primary)
                                ELSE loadFallbackAccounts(fallback)]
    /\ UNCHANGED <<primary, fallback>>

\* addAccount(email, refreshToken)
addAccount(email, refreshToken) ==
    LET accounts == AddedAccounts(loadAccountsFromOwnConfig(primary), email, refreshToken)
    IN  /\ saveAccounts(accounts)
        /\ lastOp' = [Op("addAccount") EXCEPT !.email = email,
                                              !.refreshToken = refreshToken,
                                              !.count = Len(accounts)]

\* variant: the filtered list is saved whether or not a record was found
removeAccount_AlwaysSaves(email) ==
    LET accounts == loadAccountsFromOwnConfig(primary)
        filtered == RemovedAccounts(accounts, email)
    IN  /\ saveAccounts(filtered)
        /\ lastOp' = [Op("removeAccount") EXCEPT !.email = email,
                                                  !.flag = Len(filtered) # Len(accounts)]

\* removeAccount(email)
removeAccount(email) ==
    LET accounts == loadAccountsFromOwnConfig(primary)
        filtered == RemovedAccounts(accounts, email)
    IN  IF Len(filtered) = Len(accounts)
        THEN /\ lastOp' = [Op("removeAccount") EXCEPT !.email = email, !.flag = FALSE]
             /\ UNCHANGED <<primary, fallback>>
        ELSE /\ saveAccounts(filtered)
             /\ lastOp' = [Op("removeAccount") EXCEPT !.email = email, !.flag = TRUE]

\* the records the files may hold at the start
StoreRecords ==
    { StoreRecord("a@x", RefreshOf("a@x"), e, FALSE, FALSE) : e \in { "true", "false", "absent" } }
    \cup { StoreRecord("b@x", RefreshOf("b@x"), "absent", FALSE, FALSE),
           StoreRecord("b@x", RefreshOf("b@x"), "true", TRUE, FALSE),
           StoreRecord("b@x", RefreshOf("b@x"), "true", FALSE, TRUE) }

\* lists of them with unique emails
StoreLists ==
    { l \in UNION { [1..n -> StoreRecords] : n \in 0..MaxStored } :
        \A i, j \in 1..Len(l) : i # j => l[i].email # l[j].email }

-----------------------------------------------------------------------------
(* constants module: calls of isThinkingModel                              *)

\* the pieces model names are put together from
NameFragments ==
    { GeminiDash, << "G", "e", "m", "i", "n", "i", "-" >>,
      << "2" >>, << "3" >>, << "1", "0" >>, << ".", "5" >>,
      << "-", "f", "l", "a", "s", "h" >>,
      << "-" >> \o << "T" >> \o SubSeq(Thinking, 2, Len(Thinking)) }

\* the names made of at most n pieces
RECURSIVE NamesOf(_)
NamesOf(n) ==
    IF n = 0 THEN { << >> }
    ELSE NamesOf(n - 1) \cup { p \o f : p \in NamesOf(n - 1), f \in NameFragments }

\* the modelName argument: a string, or undefined
NoName == [ present |-> FALSE, text |-> << >> ]
Name(text) == [ present |-> TRUE, text |-> text ]

\* (modelName || '')
OrEmpty(arg) == IF arg.present THEN arg.text ELSE << >>

\* a call isThinkingModel(modelName)
CallIsThinkingModel ==
    /\ cmResult = "none"
    /\ cmResult' = IF isThinkingModel(OrEmpty(cmName)) THEN "true" ELSE "false"
    /\ UNCHANGED cmName

-----------------------------------------------------------------------------
(* server module: the handler of tool calls                                *)

\* the characters of the string literals of the handler and of the texts it is given
Text(literal) ==
    CASE literal = "No Antigravity accounts configured. Run: antigravity-claude-proxy accounts add" ->
           << "N", "o", " ", "A", "n", "t", "i", "g", "r", "a", "v", "i", "t", "y", " ",
              "a", "c", "c", "o", "u", "n", "t", "s", " ", "c", "o", "n", "f", "i", "g",
              "u", "r", "e", "d", ".", " ", "R", "u", "n", ":", " ", "a", "n", "t", "i",
              "g", "r", "a", "v", "i", "t", "y", "-", "c", "l", "a", "u", "d", "e", "-",
              "p", "r", "o", "x", "y", " ", "a", "c", "c", "o", "u", "n", "t", "s", " ",
              "a", "d", "d" >>
      [] literal = "Unknown tool: " ->
           << "U", "n", "k", "n", "o", "w", "n", " ", "t", "o", "o", "l", ":", " " >>
      [] literal = "Error: " ->
           << "E", "r", "r", "o", "r", ":", " " >>
      [] literal = "(No response)" ->
           << "(", "N", "o", " ", "r", "e", "s", "p", "o", "n", "s", "e", ")" >>
      [] literal = "<thinking>\n" ->
           << "<", "t", "h", "i", "n", "k", "i", "n", "g", ">", "\n" >>
      [] literal = "\n</thinking>\n\n" ->
           << "\n", "<", "/", "t", "h", "i", "n", "k", "i", "n", "g", ">", "\n", "\n" >>
      [] literal = "Failed to fetch models from all endpoints" ->
           << "F", "a", "i", "l", "e", "d", " ", "t", "o", " ", "f", "e", "t", "c", "h",
              " ", "m", "o", "d", "e", "l", "s", " ", "f", "r", "o", "m", " ", "a", "l",
              "l", " ", "e", "n", "d", "p", "o", "i", "n", "t", "s" >>
      [] literal = "Available Gemini Models:\n\n" ->
           << "A", "v", "a", "i", "l", "a", "b", "l", "e", " ", "G", "e", "m", "i", "n",
              "i", " ", "M", "o", "d", "e", "l", "s", ":", "\n", "\n" >>
      [] literal = "Model Quotas (Account: " ->
           << "M", "o", "d", "e", "l", " ", "Q", "u", "o", "t", "a", "s", " ", "(", "A",
              "c", "c", "o", "u", "n", "t", ":", " " >>
      [] literal = "):\n\n" ->
           << ")", ":", "\n", "\n" >>
      [] literal = "Configured Accounts:\n\n" ->
           << "C", "o", "n", "f", "i", "g", "u", "r", "e", "d", " ", "A", "c", "c", "o",
              "u", "n", "t", "s", ":", "\n", "\n" >>
      [] literal = "\n\nTotal: " ->
           << "\n", "\n", "T", "o", "t", "a", "l", ":", " " >>
      [] literal = " account(s)" ->
           << " ", "a", "c", "c", "o", "u", "n", "t", "(", "s", ")" >>
      [] literal = " (disabled)" ->
           << " ", "(", "d", "i", "s", "a", "b", "l", "e", "d", ")" >>
      [] literal = ". " ->
           << ".", " " >>
      [] literal = "- " ->
           << "-", " " >>
      [] literal = "gemini-3-flash" ->
           << "g", "e", "m", "i", "n", "i", "-", "3", "-", "f", "l", "a", "s", "h" >>
      [] literal = "gemini-2.5-flash" ->
           << "g", "e", "m", "i", "n", "i", "-", "2", ".", "5", "-", "f", "l", "a", "s",
              "h" >>
      [] literal = "claude-gemini" ->
           << "c", "l", "a", "u", "d", "e", "-", "g", "e", "m", "i", "n", "i" >>
      [] literal = "claude" ->
           << "c", "l", "a", "u", "d", "e" >>
      [] literal = "gemini" ->
           << "g", "e", "m", "i", "n", "i" >>
      [] literal = "a@x" ->
           << "a", "@", "x" >>
      [] literal = "b@x" ->
           << "b", "@", "x" >>
      [] literal = "c@x" ->
           << "c", "@", "x" >>
      [] literal = "nope" ->
           << "n", "o", "p", "e" >>
      [] literal = "bad" ->
           << "b", "a", "d" >>
      [] literal = "be brief" ->
           << "b", "e", " ", "b", "r", "i", "e", "f" >>
      [] literal = "hi" ->
           << "h", "i" >>
      [] literal = "my-project" ->
           << "m", "y", "-", "p", "r", "o", "j", "e", "c", "t" >>
      [] OTHER -> << >>

\* args.model || 'gemini-3-flash'
ModelOf(arg) == IF arg.present /\ Len(arg.text) > 0 THEN arg.text ELSE Text("gemini-3-flash")

\* the names a tool call may carry; the last one is not a tool of the server
ToolNames ==
    { "gemini_generate", "gemini_chat", "gemini_list_models", "gemini_get_quota",
      "gemini_list_accounts", "nope" }
GeneratingTools == { "gemini_generate", "gemini_chat" }
ListingTools == { "gemini_list_models", "gemini_get_quota" }

\* what a call of the handler ends with: a returned result, or a raised McpError
NoAccount == StoreRecord("", << >>, "absent", FALSE, FALSE)
NoResult == [ kind |-> "none", isError |-> FALSE, code |-> "", text |-> << >>, account |-> "" ]
Result(text, email) ==
    [ kind |-> "result", isError |-> FALSE, code |-> "", text |-> text, account |-> email ]
McpErrorRaised(code, message) ==
    [ kind |-> "raised", isError |-> FALSE, code |-> code, text |-> message, account |-> "" ]

\* variant: the catch block rethrows every error
ErrorResult_Rethrows(error) == McpErrorRaised("", error.message)

\* the catch block of the handler, for an error that is not an McpError
ErrorResult(error) ==
    [ kind |-> "result", isError |-> TRUE, code |-> "",
      text |-> Text("Error: ") \o error.message, account |-> "" ]

\* the loop over result.content that builds the response text
RECURSIVE FormatBlocks(_)
FormatBlocks(content) ==
    IF Len(content) = 0 THEN << >>
    ELSE (IF Head(content).type = "thinking"
          THEN Text("<thinking>\n") \o Head(content).text \o Text("\n</thinking>\n\n")
          ELSE IF Head(content).type = "text" THEN Head(content).text
          ELSE << >>)
         \o FormatBlocks(Tail(content))

\* response || '(No response)'
ResponseText(content) ==
    IF Len(FormatBlocks(content)) = 0 THEN Text("(No response)") ELSE FormatBlocks(content)

\* lines.join('\n')
RECURSIVE JoinLines(_)
JoinLines(lines) ==
    IF Len(lines) = 0 THEN << >>
    ELSE IF Len(lines) = 1 THEN lines[1]
    ELSE lines[1] \o << "\n" >> \o JoinLines(Tail(lines))

\* variant: an error status of the 4xx range other than 429 ends the loop,
\* as it does in generateContent
ListIteration_FatalStatus(resp) ==
    LET IsGeminiFamily(id) == /\ ~Includes(ToLower(id), Text("claude"))
                              /\ Includes(ToLower(id), Text("gemini"))
        models == IF resp.body.form = "models"
                  THEN Given(<< Text("gemini-3-flash"), Text("claude-gemini") >>)
                  ELSE Absent
    IN  IF resp.kind = "neterr" THEN Continue(NoError)
        ELSE IF ~ResponseOk(resp.status)
             THEN IF IsFatalStatus(resp.status)
                  THEN Throw(ApiError(resp.status, resp.body.text))
                  ELSE Continue(NoError)
        ELSE IF resp.body.form \notin { "json", "models" } THEN Continue(NoError)
        ELSE IF ~models.present THEN Continue(NoError)
        ELSE Return(SelectSeq(models.v, IsGeminiFamily))

\* one iteration of the loop of listModels, from the answer onwards: a body
\* of form "models" carries a models map with the ids gemini-3-flash and
\* claude-gemini, of which the Gemini family is returned
ListIteration(resp) ==
    LET IsGeminiFamily(id) == /\ ~Includes(ToLower(id), Text("claude"))
                              /\ Includes(ToLower(id), Text("gemini"))
        models == IF resp.body.form = "models"
                  THEN Given(<< Text("gemini-3-flash"), Text("claude-gemini") >>)
                  ELSE Absent
    IN  IF resp.kind = "neterr" THEN Continue(NoError)
        ELSE IF ~ResponseOk(resp.status) THEN Continue(NoError)
        ELSE IF resp.body.form \notin { "json", "models" } THEN Continue(NoError)
        ELSE IF ~models.present THEN Continue(NoError)
        ELSE Return(SelectSeq(models.v, IsGeminiFamily))

\* an upstream request: where it went and the bearer token it carried
ApiRequest(idx, tool, model, token) ==
    [ endpoint |-> API_ENDPOINTS[idx],
      path     |-> IF tool \in ListingTools THEN "/v1internal:fetchAvailableModels"
                   ELSE Request(idx, isThinkingModel(model)).path,
      bearer   |-> token ]

\* what the upstream may answer to a request of the server
ServerAnswers(tool) ==
    LET HttpAnswer(status, body) ==
            [ kind |-> "http", message |-> << >>, status |-> status, body |-> body ]
    IN  { [ kind |-> "neterr", message |-> FetchFailed, status |-> 0, body |-> TextBody(<< >>) ],
          HttpAnswer(429, TextBody(<< >>)),
          HttpAnswer(400, TextBody(Text("bad"))) }
        \cup (IF tool \in ListingTools
              THEN { HttpAnswer(200, [JsonBody(SampleDoc) EXCEPT !.form = "models"]),
                     HttpAnswer(200, JsonBody(SampleDoc)) }
              ELSE { HttpAnswer(200, JsonBody(WrappedDoc)), HttpAnswer(200, SSEBody(SampleLines)) })

\* the first await of the pipeline tools is over: the request for endpoint 1
\* goes out with the token just obtained
SendFirst(tool, model, token) ==
    /\ srvToken' = token
    /\ srvEndpoint' = 1
    /\ srvSent' = << ApiRequest(1, tool, model, token) >>
    /\ srvPc' = "api"

\* the call ends: its locals are gone, its outcome is what the caller sees
EndToolCall(outcome) ==
    /\ srvResult' = outcome
    /\ srvPc' = "idle"
    /\ srvEndpoint' = 0

\* the handler of a tool call, up to its first await or to its end.  The
\* reload throws when no account is enabled and its catch keeps the existing
\* accounts.
ToolCall(name, modelArg) ==
    LET enabled  == getEnabledAccounts(primary, fallback)
        reloaded == IF Len(enabled) = 0 THEN srvAccounts ELSE enabled
        account  == reloaded[selectAccountIndex(reloaded, currentIndex) + 1]
        cached   == tokenCache[account.email]
        listed   == Text("Configured Accounts:\n\n")
                    \o JoinLines([ i \in 1..Len(reloaded) |->
                           DigitsOf(i) \o Text(". ") \o Text(reloaded[i].email)
                           \o (IF reloaded[i].enabled = "false" THEN Text(" (disabled)")
                               ELSE << >>) ])
                    \o Text("\n\nTotal: ") \o DigitsOf(Len(reloaded)) \o Text(" account(s)")
    IN  /\ srvPc = "idle"
        /\ srvCalls < MaxToolCalls
        /\ srvCalls' = srvCalls + 1
        /\ srvAccounts' = reloaded
        /\ srvTool' = name
        /\ srvModel' = IF name \in GeneratingTools THEN ModelOf(modelArg) ELSE << >>
        /\ IF Len(reloaded) = 0
           THEN /\ EndToolCall(McpErrorRaised("InternalError", Text(
                    "No Antigravity accounts configured. Run: antigravity-claude-proxy accounts add")))
                /\ srvAccount' = NoAccount
                /\ srvToken' = 0
                /\ srvSent' = << >>
                /\ srvAsked' = FALSE
                /\ UNCHANGED <<currentIndex, tokenCache, tokenRequests>>
           ELSE IF name \in GeneratingTools \cup ListingTools
           THEN /\ currentIndex' = selectAccountNext(reloaded, currentIndex)
                /\ srvAccount' = account
                /\ srvResult' = NoResult
                /\ IF CacheValid(cached, clock)
                   THEN /\ SendFirst(name, srvModel', cached.accessToken)
                        /\ srvAsked' = FALSE
                        /\ UNCHANGED tokenRequests
                   ELSE /\ tokenRequests' = Append(tokenRequests,
                              [ caller        |-> "server",
                                email         |-> account.email,
                                refresh_token |-> parseRefreshToken(account.refreshToken) ])
                        /\ srvAsked' = TRUE
                        /\ srvPc' = "token"
                        /\ srvToken' = 0
                        /\ srvEndpoint' = 0
                        /\ srvSent' = << >>
                /\ UNCHANGED tokenCache
           ELSE /\ EndToolCall(IF name = "gemini_list_accounts"
                               THEN Result(listed, "")
                               ELSE McpErrorRaised("MethodNotFound",
                                                   Text("Unknown tool: ") \o Text(name)))
                /\ srvAccount' = NoAccount
                /\ srvToken' = 0
                /\ srvSent' = << >>
                /\ srvAsked' = FALSE
                /\ UNCHANGED <<currentIndex, tokenCache, tokenRequests>>
        /\ UNCHANGED <<selectLog, clock, tkPc, tkAccount, tkNow, tkReq, tkOutcome>>
        /\ UNCHANGED <<dispatchVars, storeVars, classifyVars, apiVars, callVars, oauthVars>>

\* variant: the token obtained is written back to the primary account file
ToolTokenOk_Persists(expiresIn) ==
    /\ srvPc = "token"
    /\ tokenCache' = CacheSet(tokenCache, srvAccount.email,
                              IssuedToken(Len(tokenRequests)), clock, expiresIn)
    /\ SendFirst(srvTool, srvModel, IssuedToken(Len(tokenRequests)))
    /\ primary' = File(AddedAccounts(loadAccountsFromOwnConfig(primary), srvAccount.email,
                                     DigitsOf(IssuedToken(Len(tokenRequests)))))
    /\ UNCHANGED <<srvAccounts, srvTool, srvModel, srvAccount, srvAsked, srvResult, srvCalls>>
    /\ UNCHANGED <<selectVars, clock, tkPc, tkAccount, tkNow, tkReq, tkOutcome, tokenRequests>>
    /\ UNCHANGED <<dispatchVars, fallback, lastOp, classifyVars, apiVars, callVars, oauthVars>>

\* the token endpoint answers the exchange of the call with a token
ToolTokenOk(expiresIn) ==
    /\ srvPc = "token"
    /\ tokenCache' = CacheSet(tokenCache, srvAccount.email,
                              IssuedToken(Len(tokenRequests)), clock, expiresIn)
    /\ SendFirst(srvTool, srvModel, IssuedToken(Len(tokenRequests)))
    /\ UNCHANGED <<srvAccounts, srvTool, srvModel, srvAccount, srvAsked, srvResult, srvCalls>>
    /\ UNCHANGED <<selectVars, clock, tkPc, tkAccount, tkNow, tkReq, tkOutcome, tokenRequests>>
    /\ UNCHANGED <<dispatchVars, storeVars, classifyVars, apiVars, callVars, oauthVars>>

\* variant: the call goes on to the first endpoint without a token
ToolTokenFails_Dispatches(error) ==
    /\ srvPc = "token"
    /\ SendFirst(srvTool, srvModel, 0)
    /\ UNCHANGED <<srvAccounts, srvTool, srvModel, srvAccount, srvAsked, srvResult, srvCalls>>
    /\ UNCHANGED <<selectVars, tokenVars, dispatchVars, storeVars, classifyVars, apiVars, callVars, oauthVars>>

\* the exchange fails: the token endpoint answers with a non-success status
\* (body given) or the fetch rejects; getAccessToken throws and the catch of
\* the handler turns the error into a result
ToolTokenFails(error) ==
    /\ srvPc = "token"
    /\ EndToolCall(ErrorResult(error))
    /\ UNCHANGED <<srvAccounts, srvTool, srvModel, srvAccount, srvToken, srvSent, srvAsked,
                   srvCalls>>
    /\ UNCHANGED <<selectVars, tokenVars, dispatchVars, storeVars, classifyVars, apiVars, callVars, oauthVars>>

\* the upstream answers the pending request of the call: the rest of the
\* loop iteration of generateContent or of listModels (which getQuota calls),
\* then, when the loop is left, the result or the catch of the handler
ToolAnswer(resp) ==
    LET listing   == srvTool \in ListingTools
        step      == IF listing THEN ListIteration(resp)
                     ELSE Iteration(resp, isThinkingModel(srvModel), srvModel)
        exhausted == IF listing THEN Error(Text("Failed to fetch models from all endpoints"))
                     ELSE Exhausted(step.error)
        modelList == Text("Available Gemini Models:\n\n")
                     \o JoinLines([ i \in 1..Len(step.result) |-> Text("- ") \o step.result[i] ])
        quotas    == Text("Model Quotas (Account: ") \o Text(srvAccount.email) \o Text("):\n\n")
        returned  == IF srvTool \in GeneratingTools
                     THEN Result(ResponseText(step.result[1].content), srvAccount.email)
                     ELSE IF srvTool = "gemini_list_models" THEN Result(modelList, "")
                     ELSE Result(quotas, "")
    IN  /\ srvPc = "api"
        /\ IF step.act = "return"
           THEN /\ EndToolCall(returned)
                /\ UNCHANGED srvSent
           ELSE IF step.act = "throw"
           THEN /\ EndToolCall(ErrorResult(step.error))
                /\ UNCHANGED srvSent
           ELSE IF srvEndpoint < Len(API_ENDPOINTS)
           THEN /\ srvEndpoint' = srvEndpoint + 1
                /\ srvSent' = Append(srvSent,
                                     ApiRequest(srvEndpoint + 1, srvTool, srvModel, srvToken))
                /\ UNCHANGED <<srvPc, srvResult>>
           ELSE /\ EndToolCall(ErrorResult(exhausted))
                /\ UNCHANGED srvSent
        /\ UNCHANGED <<srvAccounts, srvTool, srvModel, srvAccount, srvToken, srvAsked, srvCalls>>
        /\ UNCHANGED <<selectVars, tokenVars, dispatchVars, storeVars, classifyVars, apiVars, callVars, oauthVars>>

\* the accounts commands of the command line run while no call is under way
ServerIdle ==
    /\ srvPc = "idle"
    /\ UNCHANGED <<selectVars, tokenVars, dispatchVars, classifyVars, apiVars, serverVars, callVars, oauthVars>>

-----------------------------------------------------------------------------
(* api module: the request builder, and calls of one function alone        *)

DEFAULT_MAX_TOKENS == 8192
GEMINI_MAX_OUTPUT_TOKENS == 16384

DEFAULT_PROJECT_ID ==
    << "r", "i", "s", "i", "n", "g", "-", "f", "a", "c", "t", "-", "p", "4", "1", "f", "c" >>

\* const SYSTEM_INSTRUCTION = 'You are a helpful AI assistant.'
SYSTEM_INSTRUCTION ==
    << "Y", "o", "u", " ", "a", "r", "e", " ", "a", " ", "h", "e", "l", "p", "f",
       "u", "l", " ", "A", "I", " ", "a", "s", "s", "i", "s", "t", "a", "n", "t", "." >>

\* The options object the handler of gemini_generate and gemini_chat hands to
\* generateContent.  An optional text is NoName or Name(text), an optional
\* number Absent or Given(n); thinking is the object {type, budget_tokens}
\* or undefined, with budget_tokens 0 for a budget that is not given (the
\* builder reads it through `|| 16000`); temperature is not modelled.
GenerateOptions(tool, args) ==
    [ model     |-> ModelOf(args.model),
      messages  |-> IF tool = "gemini_generate"
                    THEN << [ role |-> "user", content |-> args.prompt ] >>
                    ELSE args.messages,
      system    |-> args.system,
      maxTokens |-> IF args.max_tokens.present /\ args.max_tokens.v # 0
                    THEN args.max_tokens ELSE Given(8192),
      thinking  |-> [ present |-> args.thinking # "false", type |-> "enabled",
                      budget_tokens |-> 0 ] ]

\* variant: a requested limit is passed on as it is
buildRequest_NoCeiling(options, projectId) ==
    [ project   |-> IF projectId.present /\ Len(projectId.text) > 0
                    THEN projectId.text ELSE DEFAULT_PROJECT_ID,
      model     |-> options.model,
      request   |->
          [ contents |->
                [ i \in 1..Len(options.messages) |->
                    [ role  |-> IF options.messages[i].role = "assistant" THEN "model"
                                                                          ELSE "user",
                      parts |-> << options.messages[i].content >> ] ],
            generationConfig |->
                [ maxOutputTokens |-> IF options.maxTokens.present THEN options.maxTokens.v
                                                                   ELSE DEFAULT_MAX_TOKENS,
                  thinkingConfig |->
                      IF /\ options.thinking.present
                         /\ options.thinking.type = "enabled"
                         /\ isThinkingModel(options.model)
                      THEN [ present |-> TRUE, includeThoughts |-> TRUE,
                             thinkingBudget |-> IF options.thinking.budget_tokens # 0
                                                THEN options.thinking.budget_tokens
                                                ELSE 16000 ]
                      ELSE [ present |-> FALSE, includeThoughts |-> FALSE,
                             thinkingBudget |-> 0 ] ],
            systemInstruction |->
                [ role  |-> "user",
                  parts |-> << SYSTEM_INSTRUCTION >> \o
                            (IF options.system.present /\ Len(options.system.text) > 0
                             THEN << options.system.text >> ELSE << >>) ] ],
      userAgent   |-> "antigravity",
      requestType |-> "agent" ]

\* variant: thinking parameters are attached whenever thinking is requested
buildRequest_AnyModel(options, projectId) ==
    [ project   |-> IF projectId.present /\ Len(projectId.text) > 0
                    THEN projectId.text ELSE DEFAULT_PROJECT_ID,
      model     |-> options.model,
      request   |->
          [ contents |->
                [ i \in 1..Len(options.messages) |->
                    [ role  |-> IF options.messages[i].role = "assistant" THEN "model"
                                                                          ELSE "user",
                      parts |-> << options.messages[i].content >> ] ],
            generationConfig |->
                [ maxOutputTokens |->
                      Min(IF options.maxTokens.present THEN options.maxTokens.v
                                                       ELSE DEFAULT_MAX_TOKENS,
                          GEMINI_MAX_OUTPUT_TOKENS),
                  thinkingConfig |->
                      IF /\ options.thinking.present
                         /\ options.thinking.type = "enabled"
                      THEN [ present |-> TRUE, includeThoughts |-> TRUE,
                             thinkingBudget |-> IF options.thinking.budget_tokens # 0
                                                THEN options.thinking.budget_tokens
                                                ELSE 16000 ]
                      ELSE [ present |-> FALSE, includeThoughts |-> FALSE,
                             thinkingBudget |-> 0 ] ],
            systemInstruction |->
                [ role  |-> "user",
                  parts |-> << SYSTEM_INSTRUCTION >> \o
                            (IF options.system.present /\ Len(options.system.text) > 0
                             THEN << options.system.text >> ELSE << >>) ] ],
      userAgent   |-> "antigravity",
      requestType |-> "agent" ]

\* variant: the caller's system instruction stands in for the fixed one
buildRequest_SystemReplaces(options, projectId) ==
    [ project   |-> IF projectId.present /\ Len(projectId.text) > 0
                    THEN projectId.text ELSE DEFAULT_PROJECT_ID,
      model     |-> options.model,
      request   |->
          [ contents |->
                [ i \in 1..Len(options.messages) |->
                    [ role  |-> IF options.messages[i].role = "assistant" THEN "model"
                                                                          ELSE "user",
                      parts |-> << options.messages[i].content >> ] ],
            generationConfig |->
                [ maxOutputTokens |->
                      Min(IF options.maxTokens.present THEN options.maxTokens.v
                                                       ELSE DEFAULT_MAX_TOKENS,
                          GEMINI_MAX_OUTPUT_TOKENS),
                  thinkingConfig |->
                      IF /\ options.thinking.present
                         /\ options.thinking.type = "enabled"
                         /\ isThinkingModel(options.model)
                      THEN [ present |-> TRUE, includeThoughts |-> TRUE,
                             thinkingBudget |-> IF options.thinking.budget_tokens # 0
                                                THEN options.thinking.budget_tokens
                                                ELSE 16000 ]
                      ELSE [ present |-> FALSE, includeThoughts |-> FALSE,
                             thinkingBudget |-> 0 ] ],
            systemInstruction |->
                [ role  |-> "user",
                  parts |-> IF options.system.present /\ Len(options.system.text) > 0
                            THEN << options.system.text >>
                            ELSE << SYSTEM_INSTRUCTION >> ] ],
      userAgent   |-> "antigravity",
      requestType |-> "agent" ]

\* buildRequest(options, projectId): the payload without its random
\* requestId.  The text of a message is its one part (convertMessages for
\* string contents); maxTokens = DEFAULT_MAX_TOKENS is the default of the
\* destructuring; temperature, topP and topK are not modelled.
buildRequest(options, projectId) ==
    [ project   |-> IF projectId.present /\ Len(projectId.text) > 0
                    THEN projectId.text ELSE DEFAULT_PROJECT_ID,
      model     |-> options.model,
      request   |->
          [ contents |->
                [ i \in 1..Len(options.messages) |->
                    [ role  |-> IF options.messages[i].role = "assistant" THEN "model"
                                                                          ELSE "user",
                      parts |-> << options.messages[i].content >> ] ],
            generationConfig |->
                [ maxOutputTokens |->
                      Min(IF options.maxTokens.present THEN options.maxTokens.v
                                                       ELSE DEFAULT_MAX_TOKENS,
                          GEMINI_MAX_OUTPUT_TOKENS),
                  thinkingConfig |->
                      IF /\ options.thinking.present
                         /\ options.thinking.type = "enabled"
                         /\ isThinkingModel(options.model)
                      THEN [ present |-> TRUE, includeThoughts |-> TRUE,
                             thinkingBudget |-> IF options.thinking.budget_tokens # 0
                                                THEN options.thinking.budget_tokens
                                                ELSE 16000 ]
                      ELSE [ present |-> FALSE, includeThoughts |-> FALSE,
                             thinkingBudget |-> 0 ] ],
            systemInstruction |->
                [ role  |-> "user",
                  parts |-> << SYSTEM_INSTRUCTION >> \o
                            (IF options.system.present /\ Len(options.system.text) > 0
                             THEN << options.system.text >> ELSE << >>) ] ],
      userAgent   |-> "antigravity",
      requestType |-> "agent" ]

\* variant: the whole stored credential is taken for the refresh token
parseRefreshParts_WholeCredential(refresh) ==
    LET text == IF refresh.present THEN refresh.text ELSE << >>
        RECURSIVE Split(_)
        Split(t) == LET i == FirstIndexOf(t, "|", 1)
                    IN  IF i > Len(t) THEN << t >>
                        ELSE << SubSeq(t, 1, i - 1) >> \o Split(SubSeq(t, i + 1, Len(t)))
        segments == Split(text)
        Segment(k) == IF Len(segments) >= k THEN segments[k] ELSE << >>
        OrUndefined(t) == IF Len(t) > 0 THEN Name(t) ELSE NoName
    IN  [ refreshToken     |-> text,
          projectId        |-> OrUndefined(Segment(2)),
          managedProjectId |-> OrUndefined(Segment(3)) ]

\* parseRefreshParts(refresh): (refresh ?? '').split('|') destructured with
\* the default '' for each of the three fields, `|| undefined` on the last two
parseRefreshParts(refresh) ==
    LET text == IF refresh.present THEN refresh.text ELSE << >>
        RECURSIVE Split(_)
        Split(t) == LET i == FirstIndexOf(t, "|", 1)
                    IN  IF i > Len(t) THEN << t >>
                        ELSE << SubSeq(t, 1, i - 1) >> \o Split(SubSeq(t, i + 1, Len(t)))
        segments == Split(text)
        Segment(k) == IF Len(segments) >= k THEN segments[k] ELSE << >>
        OrUndefined(t) == IF Len(t) > 0 THEN Name(t) ELSE NoName
    IN  [ refreshToken     |-> Segment(1),
          projectId        |-> OrUndefined(Segment(2)),
          managedProjectId |-> OrUndefined(Segment(3)) ]

\* variant: the projectId field of the account is looked at first
getProjectId_AccountFieldFirst(account) ==
    LET parts == parseRefreshParts(account.refreshToken)
    IN  IF account.projectId.present /\ Len(account.projectId.text) > 0
        THEN account.projectId
        ELSE IF parts.managedProjectId.present THEN parts.managedProjectId
        ELSE IF parts.projectId.present THEN parts.projectId
        ELSE NoName

\* getProjectId(account); NoName stands for the null it returns
getProjectId(account) ==
    LET parts == parseRefreshParts(account.refreshToken)
    IN  IF parts.managedProjectId.present THEN parts.managedProjectId
        ELSE IF parts.projectId.present THEN parts.projectId
        ELSE IF account.projectId.present /\ Len(account.projectId.text) > 0
        THEN account.projectId
        ELSE NoName

\* const payload = buildRequest(options, projectId), for options given
\* directly or built by the handler of a generating tool from its arguments
\* and called with the projectId the handler gets from getProjectId(account)
CallBuildRequest ==
    /\ apiPc = "called"
    /\ apiCall.fn \in { "buildRequest" } \cup GeneratingTools
    /\ apiReturn' =
          [ payload |-> << buildRequest(IF apiCall.fn = "buildRequest"
                                        THEN apiCall.options[1]
                                        ELSE GenerateOptions(apiCall.fn, apiCall.args[1]),
                                        IF apiCall.fn = "buildRequest"
                                        THEN apiCall.projectId
                                        ELSE getProjectId(apiCall.account[1])) >>,
            step    |-> << >> ]
    /\ apiPc' = "returned"
    /\ UNCHANGED apiCall

\* refreshAccessToken(compositeRefresh) up to its fetch: the parts of the
\* credential and the form fields of the exchange it sends
CallRefreshAccessToken ==
    /\ apiPc = "called"
    /\ apiCall.fn = "refreshAccessToken"
    /\ apiReturn' =
          [ payload |-> << >>,
            step    |-> << [ parts         |-> parseRefreshParts(apiCall.account[1].refreshToken),
                             refresh_token |->
                                 parseRefreshParts(apiCall.account[1].refreshToken).refreshToken,
                             grant_type    |-> "refresh_token" ] >> ]
    /\ apiPc' = "returned"
    /\ UNCHANGED apiCall

\* what generateContent makes of a success answer: parseSSEResponse for a
\* streaming dispatch, response.json(), the unwrap and parseResponse otherwise
CallNormalize ==
    /\ apiPc = "called"
    /\ apiCall.fn = "normalize"
    /\ apiReturn' =
          [ payload |-> << >>,
            step    |-> << Iteration([ kind |-> "http", message |-> << >>, status |-> 200,
                                       body |-> apiCall.body[1] ],
                                     apiCall.streaming, apiCall.model) >> ]
    /\ apiPc' = "returned"
    /\ UNCHANGED apiCall

-----------------------------------------------------------------------------
(* server module: tool calls that are under way at the same time           *)

ToolCalls == { "t1", "t2", "t3" }

\* the handler from its entry to its first await: accounts = loadAccounts(),
\* the test for an empty list, const account = selectAccount(accounts), and
\* getAccessToken(account) up to the point where the call is suspended
HandlerStarts(c) ==
    /\ tcPc[c] = "idle"
    /\ currentIndex < MaxSelectCalls
    /\ IF Len(tcAccounts) = 0
       THEN UNCHANGED <<currentIndex, tcPc, tcTicket, tcAccount>>
       ELSE /\ currentIndex' = selectAccountNext(tcAccounts, currentIndex)
            /\ tcTicket' = [tcTicket EXCEPT ![c] = currentIndex]
            /\ tcAccount' = [tcAccount EXCEPT ![c] =
                   tcAccounts[selectAccountIndex(tcAccounts, currentIndex) + 1]]
            /\ tcPc' = [tcPc EXCEPT ![c] = "suspended"]
    /\ UNCHANGED <<selectLog, tcAccounts>>
    /\ UNCHANGED <<tokenVars, dispatchVars, storeVars, classifyVars, apiVars, serverVars, oauthVars>>

\* the rest of the handler, after its awaits: the call ends
HandlerEnds(c) ==
    /\ tcPc[c] = "suspended"
    /\ tcPc' = [tcPc EXCEPT ![c] = "idle"]
    /\ tcTicket' = [tcTicket EXCEPT ![c] = 0]
    /\ tcAccount' = [tcAccount EXCEPT ![c] = ""]
    /\ UNCHANGED <<selectVars, tcAccounts>>
    /\ UNCHANGED <<tokenVars, dispatchVars, storeVars, classifyVars, apiVars, serverVars, oauthVars>>

\* listModels(token, projectId), given what each endpoint answers when it
\* is asked: the loop over API_ENDPOINTS and the throw after it, with the
\* endpoints that were asked
listModels(answers) ==
    LET RECURSIVE Loop(_)
        Loop(i) ==
            IF i > Len(API_ENDPOINTS)
            THEN [ outcome |-> Throw(Error(Text("Failed to fetch models from all endpoints"))),
                   asked   |-> [ k \in 1..(i - 1) |-> API_ENDPOINTS[k] ] ]
            ELSE IF ListIteration(answers[i]).act = "next"
            THEN Loop(i + 1)
            ELSE [ outcome |-> ListIteration(answers[i]),
                   asked   |-> [ k \in 1..i |-> API_ENDPOINTS[k] ] ]
    IN  Loop(1)

\* a call of listModels
CallListModels ==
    /\ apiPc = "called"
    /\ apiCall.fn = "listModels"
    /\ apiReturn' = [ payload |-> << >>, step |-> << listModels(apiCall.answers) >> ]
    /\ apiPc' = "returned"
    /\ UNCHANGED apiCall

-----------------------------------------------------------------------------
(* oauth module: startCallbackServer                                       *)

MaxCallbacks == 2

CallbackPath == "/oauth-callback"

\* the promise as created: neither resolve nor reject has been called
Pending == [ status |-> "pending", code |-> << >>, message |-> << >> ]

\* resolve(code): settles the promise if it is pending, else does nothing
Resolve(wait, code) ==
    IF wait.status = "pending"
    THEN [ status |-> "resolved", code |-> code, message |-> << >> ]
    ELSE wait

\* reject(new Error(message)): settles the promise if it is pending
Reject(wait, message) ==
    IF wait.status = "pending"
    THEN [ status |-> "rejected", code |-> << >>, message |-> message ]
    ELSE wait

\* server.close(): no new connections are accepted
Close(listener) == IF listener \in { "starting", "listening" } THEN "closed" ELSE listener

\* clearTimeout(timeoutId)
ClearTimeout(timer) == IF timer = "armed" THEN "cleared" ELSE timer

\* a value of url.searchParams.get(name) that counts as true: not null, not ''
Truthy(param) == param.present /\ Len(param.text) > 0

OAuthErrorPrefix == << "O", "A", "u", "t", "h", " ", "e", "r", "r", "o", "r", ":", " " >>
StateMismatch == << "S", "t", "a", "t", "e", " ", "m", "i", "s", "m", "a", "t", "c", "h" >>
NoAuthorizationCode == << "N", "o", " ", "a", "u", "t", "h", "o", "r", "i", "z", "a", "t", "i", "o", "n", " ", "c", "o", "d", "e" >>
CallbackTimeout == << "O", "A", "u", "t", "h", " ", "c", "a", "l", "l", "b", "a", "c", "k", " ", "t", "i", "m", "e", "o", "u", "t" >>
FailedToStart == << "F", "a", "i", "l", "e", "d", " ", "t", "o", " ", "s", "t", "a", "r", "t", " ", "c", "a", "l", "l", "b", "a", "c", "k", " ", "s", "e", "r", "v", "e", "r", ":", " " >>

\* variant: the state of the request is not compared with the expected one
CallbackAnswer_NoStateCheck(req, expectedState, listener, timer, wait) ==
    IF req.path # CallbackPath
    THEN [ status |-> 404, listener |-> listener, timer |-> timer, wait |-> wait ]
    ELSE IF Truthy(req.error)
    THEN [ status |-> 400, listener |-> Close(listener), timer |-> timer,
           wait |-> Reject(wait, OAuthErrorPrefix \o req.error.text) ]
    ELSE IF ~Truthy(req.code)
    THEN [ status |-> 400, listener |-> Close(listener), timer |-> timer,
           wait |-> Reject(wait, NoAuthorizationCode) ]
    ELSE [ status |-> 200, listener |-> Close(listener), timer |-> ClearTimeout(timer),
           wait |-> Resolve(wait, req.code.text) ]

\* the request listener: what a request is answered with, and what it does
\* to the listener, the timer and the promise
CallbackAnswer(req, expectedState, listener, timer, wait) ==
    IF req.path # CallbackPath
    THEN [ status |-> 404, listener |-> listener, timer |-> timer, wait |-> wait ]
    ELSE IF Truthy(req.error)
    THEN [ status |-> 400, listener |-> Close(listener), timer |-> timer,
           wait |-> Reject(wait, OAuthErrorPrefix \o req.error.text) ]
    ELSE IF req.state # Name(expectedState)
    THEN [ status |-> 400, listener |-> Close(listener), timer |-> timer,
           wait |-> Reject(wait, StateMismatch) ]
    ELSE IF ~Truthy(req.code)
    THEN [ status |-> 400, listener |-> Close(listener), timer |-> timer,
           wait |-> Reject(wait, NoAuthorizationCode) ]
    ELSE [ status |-> 200, listener |-> Close(listener), timer |-> ClearTimeout(timer),
           wait |-> Resolve(wait, req.code.text) ]

\* server.listen(...): the port is bound
ListenOk ==
    /\ oaListener = "starting"
    /\ oaListener' = "listening"
    /\ UNCHANGED <<oaExpected, oaTimer, oaWait, oaConn, oaLast, oaCount, oaAborted>>
    /\ UNCHANGED <<selectVars, tokenVars, dispatchVars, storeVars, classifyVars, apiVars, serverVars, callVars>>

\* server.on('error'): the port cannot be bound
ListenFails(message) ==
    /\ oaListener = "starting"
    /\ oaListener' = "failed"
    /\ oaWait' = Reject(oaWait, FailedToStart \o message)
    /\ UNCHANGED <<oaExpected, oaTimer, oaConn, oaLast, oaCount, oaAborted>>
    /\ UNCHANGED <<selectVars, tokenVars, dispatchVars, storeVars, classifyVars, apiVars, serverVars, callVars>>

\* a request reaches the request listener, over a new connection while the
\* server listens or over one accepted before it was closed; the connection
\* stays open afterwards or not
CallbackRequest(req, keepAlive) ==
    LET answer == CallbackAnswer(req, oaExpected, oaListener, oaTimer, oaWait)
    IN  /\ oaListener = "listening" \/ oaConn
        /\ oaCount < MaxCallbacks
        /\ oaListener' = answer.listener
        /\ oaTimer' = answer.timer
        /\ oaWait' = answer.wait
        /\ oaLast' = << [ request |-> req, status |-> answer.status ] >>
        /\ oaCount' = oaCount + 1
        /\ oaConn' = keepAlive
        /\ UNCHANGED <<oaExpected, oaAborted>>
        /\ UNCHANGED <<selectVars, tokenVars, dispatchVars, storeVars, classifyVars, apiVars, serverVars, callVars>>

\* the timer set with setTimeout(..., timeoutMs) fires; the outcome of
\* listen is known by then
CallbackTimer ==
    /\ oaTimer = "armed"
    /\ oaListener # "starting"
    /\ oaTimer' = "fired"
    /\ oaListener' = Close(oaListener)
    /\ oaWait' = Reject(oaWait, CallbackTimeout)
    /\ UNCHANGED <<oaExpected, oaConn, oaLast, oaCount, oaAborted>>
    /\ UNCHANGED <<selectVars, tokenVars, dispatchVars, storeVars, classifyVars, apiVars, serverVars, callVars>>

\* abort(): if (timeoutId) clearTimeout(timeoutId); if (server) server.close()
abort ==
    /\ ~oaAborted
    /\ oaListener # "starting"
    /\ oaAborted' = TRUE
    /\ oaTimer' = ClearTimeout(oaTimer)
    /\ oaListener' = Close(oaListener)
    /\ UNCHANGED <<oaExpected, oaWait, oaConn, oaLast, oaCount>>
    /\ UNCHANGED <<selectVars, tokenVars, dispatchVars, storeVars, classifyVars, apiVars, serverVars, callVars>>

-----------------------------------------------------------------------------
(* Specifications                                                          *)

\* the variables of the modules a specification leaves alone
InitRest(active) ==
    /\ IF "store" \in active THEN TRUE
       ELSE /\ primary = FileOf("absent")
            /\ fallback = FileOf("absent")
            /\ lastOp = Op("none")
    /\ IF "classify" \in active THEN TRUE
       ELSE /\ cmName = [ present |-> FALSE, text |-> << >> ]
            /\ cmResult = "none"
    /\ IF "api" \in active THEN TRUE
       ELSE /\ apiCall = [ fn |-> "none" ]
            /\ apiPc = "returned"
            /\ apiReturn = [ payload |-> << >>, step |-> << >> ]
    /\ IF "server" \in active THEN TRUE
       ELSE /\ srvAccounts = << >>
            /\ srvPc = "idle"
            /\ srvTool = ""
            /\ srvModel = << >>
            /\ srvAccount = NoAccount
            /\ srvToken = 0
            /\ srvEndpoint = 0
            /\ srvSent = << >>
            /\ srvAsked = FALSE
            /\ srvResult = NoResult
            /\ srvCalls = 0
    /\ IF "calls" \in active THEN TRUE
       ELSE /\ tcAccounts = << >>
            /\ tcPc = [ c \in ToolCalls |-> "idle" ]
            /\ tcTicket = [ c \in ToolCalls |-> 0 ]
            /\ tcAccount = [ c \in ToolCalls |-> "" ]
    /\ IF "oauth" \in active THEN TRUE
       ELSE /\ oaExpected = << >>
            /\ oaListener = "closed"
            /\ oaTimer = "cleared"
            /\ oaWait = Pending
            /\ oaConn = FALSE
            /\ oaLast = << >>
            /\ oaCount = 0
            /\ oaAborted = FALSE

InitCore ==
    /\ currentIndex = 0
    /\ selectLog = << >>
    /\ tokenCache = [ e \in Emails |-> NoEntry ]
    /\ clock = 0
    /\ tkPc = [ p \in Callers |-> "idle" ]
    /\ tkAccount = [ p \in Callers |-> "" ]
    /\ tkNow = [ p \in Callers |-> 0 ]
    /\ tkReq = [ p \in Callers |-> 0 ]
    /\ tkOutcome = [ p \in Callers |-> NoOutcome ]
    /\ tokenRequests = << >>
    /\ gcPc = "idle"
    /\ gcModel = << >>
    /\ gcThinking = FALSE
    /\ useStreaming = FALSE
    /\ endpointIdx = 0
    /\ lastError = NoError
    /\ requests = << >>
    /\ responses = << >>
    /\ gcOutcome = [ kind |-> "none", result |-> << >>, error |-> NoError ]

Init == InitCore /\ InitRest({})

InitStore ==
    /\ InitCore
    /\ InitRest({ "store" })
    /\ primary \in { FileOf(k) : k \in { "absent", "malformed", "null", "nofield" } }
                   \cup { File(l) : l \in StoreLists }
    /\ fallback \in
          { FileOf("absent"), FileOf("malformed"), File(<< >>),
            File(<< StoreRecord("c@x", RefreshOf("c@x"), "absent", FALSE, FALSE) >>),
            File(<< StoreRecord("c@x", RefreshOf("c@x"), "absent", FALSE, FALSE),
                    StoreRecord("b@x", RefreshOf("b@x"), "false", FALSE, FALSE) >>) }
    /\ lastOp = Op("none")

NextSelect == \E accounts \in AccountLists : selectAccount(accounts)

NextToken ==
    \/ \E p \in Callers, email \in TokenEmails : getAccessTokenHit(p, email)
    \/ \E p \in Callers, email \in TokenEmails : getAccessTokenMiss(p, email)
    \/ \E p \in Callers, expiresIn \in ExpiresInValues : RefreshOk(p, expiresIn)
    \/ \E p \in Callers, body \in TokenErrorBodies : RefreshNotOk(p, body)
    \/ \E p \in Callers : RefreshFetchFails(p)
    \/ Tick

NextDispatch ==
    \/ \E model \in Models, thinking \in BOOLEAN : generateContent(model, thinking)
    \/ \E message \in NetworkErrors : FetchRejects(message)
    \/ \E status \in ErrorStatuses, text \in ErrorTexts : RespondsNotOk(status, text)
    \/ \E status \in SuccessStatuses, body \in SuccessBodies : RespondsOk(status, body)

InitClassify ==
    /\ InitCore
    /\ InitRest({ "classify" })
    /\ cmName \in { NoName } \cup { Name(t) : t \in NamesOf(MaxFragments) \cup Models }
    /\ cmResult = "none"

NextClassify ==
    CallIsThinkingModel
    /\ UNCHANGED <<selectVars, tokenVars, dispatchVars, storeVars, apiVars, serverVars, callVars, oauthVars>>

SpecClassify == InitClassify /\ [][NextClassify]_vars

\* the server has started: let accounts = [], then the load inside try/catch
InitServer ==
    /\ InitCore
    /\ InitRest({ "store", "server" })
    /\ primary \in
          { FileOf("absent"), File(<< >>),
            File(<< StoreRecord("a@x", RefreshOf("a@x"), "true", FALSE, FALSE) >>),
            File(<< StoreRecord("a@x", RefreshOf("a@x"), "true", FALSE, FALSE),
                    StoreRecord("b@x", RefreshOf("b@x"), "absent", FALSE, FALSE) >>),
            File(<< StoreRecord("a@x", RefreshOf("a@x"), "false", FALSE, FALSE),
                    StoreRecord("b@x", RefreshOf("b@x"), "absent", FALSE, FALSE) >>) }
    /\ fallback \in { FileOf("absent"),
                       File(<< StoreRecord("b@x", RefreshOf("b@x"), "absent", FALSE, FALSE) >>) }
    /\ lastOp = Op("none")
    /\ srvAccounts = getEnabledAccounts(primary, fallback)
    /\ srvPc = "idle"
    /\ srvTool = ""
    /\ srvModel = << >>
    /\ srvAccount = NoAccount
    /\ srvToken = 0
    /\ srvEndpoint = 0
    /\ srvSent = << >>
    /\ srvAsked = FALSE
    /\ srvResult = NoResult
    /\ srvCalls = 0

NextServer ==
    \/ \E name \in ToolNames, modelArg \in { NoName, Name(Text("gemini-2.5-flash")) } :
          ToolCall(name, modelArg)
    \/ \E expiresIn \in { Given(3599), Given(30) } : ToolTokenOk(expiresIn)
    \/ \E error \in { Error(TokenRefreshFailed \o Text("bad")), Error(FetchFailed) } :
          ToolTokenFails(error)
    \/ \E resp \in ServerAnswers(srvTool) : ToolAnswer(resp)
    \/ \E email \in TokenEmails : addAccount(email, RefreshOf(email)) /\ ServerIdle
    \/ \E email \in TokenEmails : removeAccount(email) /\ ServerIdle
    \/ Read("listAccounts") /\ ServerIdle

SpecServer == InitServer /\ [][NextServer]_vars


NextStore ==
    /\ \/ \E op \in { "loadAccounts", "getEnabledAccounts", "auth.loadAccounts",
                       "listAccounts" } : Read(op)
       \/ \E email \in Emails, refreshToken \in { << "n" >>, << "n", "|", "q" >> } :
             addAccount(email, refreshToken)
       \/ \E email \in Emails : removeAccount(email)
    /\ UNCHANGED <<selectVars, tokenVars, dispatchVars, classifyVars, apiVars, serverVars, callVars, oauthVars>>

\* one call of the request builder or of a normalizer, with its arguments
InitApi ==
    LET UpTo(S, n) == UNION { [ 1..k -> S ] : k \in 0..n }
        Texts == { NoName, Name(<< >>), Name(Text("be brief")) }
        Limits == { 1, DEFAULT_MAX_TOKENS, GEMINI_MAX_OUTPUT_TOKENS,
                    GEMINI_MAX_OUTPUT_TOKENS + 1, 100000 }
        Messages == { << [ role |-> "user", content |-> Text("hi") ] >>,
                      << [ role |-> "user", content |-> Text("hi") ],
                         [ role |-> "assistant", content |-> Text("bad") ] >> }
        Options == [ model     : Models,
                     messages  : { << [ role |-> "user", content |-> Text("hi") ] >> },
                     system    : Texts,
                     maxTokens : { Absent, Given(0) } \cup { Given(n) : n \in Limits },
                     thinking  : { [ present |-> FALSE, type |-> "", budget_tokens |-> 0 ],
                                   [ present |-> TRUE, type |-> "enabled", budget_tokens |-> 0 ],
                                   [ present |-> TRUE, type |-> "enabled", budget_tokens |-> 5 ],
                                   [ present |-> TRUE, type |-> "disabled", budget_tokens |-> 0 ] } ]
        Args == [ model      : { NoName } \cup { Name(m) : m \in Models },
                  prompt     : { Text("hi") },
                  messages   : Messages,
                  system     : Texts,
                  max_tokens : { Absent, Given(0) } \cup { Given(n) : n \in Limits },
                  thinking   : { "absent", "true", "false" } ]
        Parts == { Part(<< "a" >>, << >>), Part(<< >>, << "b" >>), Part(<< >>, << "c" >>),
                   Part(<< "d" >>, << "e" >>), Part(<< >>, << >>) }
        Candidate(finishReason, parts) == [ finishReason |-> finishReason, parts |-> parts ]
        Candidates == { Candidate(f, ps) :
                            f \in { "", "STOP", "MAX_TOKENS", "SAFETY", "RECITATION", "BLOCKLIST" },
                            ps \in UpTo(Parts, MaxParts) }
        Later == Candidate("MAX_TOKENS", << Part(<< >>, << "z" >>) >>)
        Docs == { Doc(depth, usage, cs) :
                      depth \in 0..2, usage \in { Absent, SampleUsage },
                      cs \in { << >> } \cup { << c >> : c \in Candidates }
                                       \cup { << c, Later >> : c \in Candidates } }
        Frames == { Doc(0, Absent, << Candidate("", << Part(<< "a" >>, << >>) >>) >>),
                    Doc(0, Absent, << Candidate("", << Part(<< >>, << "b" >>) >>) >>),
                    Doc(0, SampleUsage, << Candidate("STOP", << Part(<< >>, << "c" >>) >>) >>),
                    Doc(1, Given(<< 1, 2 >>),
                        << Candidate("", << Part(<< "d" >>, << "e" >>), Part(<< >>, << "b" >>) >>) >>),
                    Doc(0, Given(<< 7, 0 >>), << >>),
                    Doc(0, Absent, << Candidate("RECITATION", << >>) >>),
                    Doc(0, Absent, << Candidate("", << Part(<< >>, << "b" >>) >>), Later >>),
                    Doc(2, Given(<< 9, 9 >>), << Candidate("SAFETY", << Part(<< >>, << "c" >>) >>) >>) }
        Lines == { Line(TRUE, Given(f)) : f \in Frames }
                 \cup { Line(TRUE, Absent), Line(FALSE, Absent),
                        Line(FALSE, Given(Doc(0, SampleUsage,
                                              << Candidate("SAFETY", << Part(<< >>, << "c" >>) >>) >>))) }
        Accounts == [ refreshToken : { NoName, Name(<< "r", "a" >>), Name(<< "r", "b", "|", "p" >>),
                                       Name(<< "r", "c", "|", "p", "|", "m" >>),
                                       Name(<< "r", "d", "|", "|", "m" >>),
                                       Name(<< "r", "e", "|" >>),
                                       Name(<< "r", "f", "|", "p", "|", "m", "|", "x" >>) },
                      projectId    : { NoName, Name(<< >>), Name(Text("my-project")) } ]
        Call(fn, args, options, projectId, streaming, body) ==
            [ fn |-> fn, args |-> args, options |-> options, projectId |-> projectId,
              account |-> << >>, streaming |-> streaming, model |-> Text("gemini-3-flash"),
              body |-> body, answers |-> << >> ]
        HttpAnswer(status, body) ==
            [ kind |-> "http", message |-> << >>, status |-> status, body |-> body ]
        Answers == { [ kind |-> "neterr", message |-> FetchFailed, status |-> 0,
                       body |-> TextBody(<< >>) ],
                     HttpAnswer(200, [JsonBody(SampleDoc) EXCEPT !.form = "models"]),
                     HttpAnswer(200, JsonBody(SampleDoc)),
                     HttpAnswer(200, TextBody(Text("bad"))) }
                   \cup { HttpAnswer(status, TextBody(Text("bad"))) : status \in ErrorStatuses }
    IN  /\ InitCore
        /\ InitRest({ "api" })
        /\ apiCall \in
              { Call("buildRequest", << >>, << o >>, p, FALSE, << >>) :
                    o \in Options, p \in { NoName, Name(<< >>), Name(Text("my-project")) } }
              \cup { [Call(tool, << a >>, << >>, NoName, FALSE, << >>) EXCEPT !.account = << c >>] :
                    tool \in GeneratingTools, a \in Args, c \in Accounts }
              \cup { [Call("refreshAccessToken", << >>, << >>, NoName, FALSE, << >>)
                          EXCEPT !.account = << c >>] : c \in Accounts }
              \cup { [Call("listModels", << >>, << >>, NoName, FALSE, << >>) EXCEPT !.answers = as] :
                    as \in [ 1..Len(API_ENDPOINTS) -> Answers ] }
              \cup { Call("normalize", << >>, << >>, NoName, FALSE, << JsonBody(d) >>) : d \in Docs }
              \cup { Call("normalize", << >>, << >>, NoName, TRUE, << SSEBody(ls) >>) :
                    ls \in UpTo(Lines, MaxFrames) }
        /\ apiPc = "called"
        /\ apiReturn = [ payload |-> << >>, step |-> << >> ]

NextApi ==
    /\ CallBuildRequest \/ CallRefreshAccessToken \/ CallNormalize \/ CallListModels
    /\ UNCHANGED <<selectVars, tokenVars, dispatchVars, storeVars, classifyVars, serverVars, callVars, oauthVars>>

SpecApi == InitApi /\ [][NextApi]_vars

SpecSelect == Init /\ [][NextSelect]_vars

\* startCallbackServer(expectedState) has returned { promise, abort }
InitOAuth ==
    /\ InitCore
    /\ InitRest({ "oauth" })
    /\ oaExpected \in { << "s", "1" >>, << "s", "2" >> }
    /\ oaListener = "starting"
    /\ oaTimer = "armed"
    /\ oaWait = Pending
    /\ oaConn = FALSE
    /\ oaLast = << >>
    /\ oaCount = 0
    /\ oaAborted = FALSE

NextOAuth ==
    \/ ListenOk
    \/ \E message \in { << "E", "A", "D", "D", "R", "I", "N", "U", "S", "E" >> } : ListenFails(message)
    \/ \E path \in { CallbackPath, "/", "/favicon.ico" },
          error \in { NoName, Name(<< >>), Name(<< "d", "e", "n", "i", "e", "d" >>) },
          state \in { NoName, Name(<< "s", "1" >>), Name(<< "s", "2" >>) },
          code \in { NoName, Name(<< >>), Name(<< "c", "1" >>) },
          keepAlive \in BOOLEAN :
          CallbackRequest([ path |-> path, error |-> error, state |-> state, code |-> code ],
                          keepAlive)
    \/ CallbackTimer
    \/ abort

SpecOAuth == InitOAuth /\ [][NextOAuth]_vars

\* the outcome of listen is reported, and a timer that was set and not
\* cleared fires
SpecOAuthFair ==
    SpecOAuth
    /\ WF_vars(ListenOk \/ ListenFails(<< "E", "A", "D", "D", "R", "I", "N", "U", "S", "E" >>))
    /\ WF_vars(CallbackTimer)

\* tool calls over one sequence of enabled accounts that no call changes
InitCalls ==
    /\ InitCore
    /\ InitRest({ "calls" })
    /\ tcAccounts \in AccountLists
    /\ tcPc = [ c \in ToolCalls |-> "idle" ]
    /\ tcTicket = [ c \in ToolCalls |-> 0 ]
    /\ tcAccount = [ c \in ToolCalls |-> "" ]

NextCalls ==
    \/ \E c \in ToolCalls : HandlerStarts(c)
    \/ \E c \in ToolCalls : HandlerEnds(c)

SpecCalls == InitCalls /\ [][NextCalls]_vars
SpecStore == InitStore /\ [][NextStore]_vars
SpecToken == Init /\ [][NextToken]_vars

\* the token cache with every exported operation on it
NextTokenCache ==
    \/ NextToken
    \/ \E email \in TokenEmails \cup { "" } : clearTokenCache(email)

SpecTokenCache == Init /\ [][NextTokenCache]_vars
SpecDispatch == Init /\ [][NextDispatch]_vars

\* every fetch of the dispatch and every read of its body settles
SpecDispatchFair ==
    SpecDispatch
    /\ WF_vars(\/ \E message \in NetworkErrors : FetchRejects(message)
               \/ \E status \in ErrorStatuses, text \in ErrorTexts : RespondsNotOk(status, text)
               \/ \E status \in SuccessStatuses, body \in SuccessBodies : RespondsOk(status, body))

-----------------------------------------------------------------------------
(* Claims about generateContent (SpecDispatch)                             *)

IsHttp(i) == responses[i].kind = "http"
IsSuccess(i) == IsHttp(i) /\ responses[i].status >= 200 /\ responses[i].status <= 299

\* the message of an HTTP failure: status code and upstream body
HttpFailureMessage(i) ==
    ApiErrorPrefix \o DigitsOf(responses[i].status) \o << ":", " " >> \o responses[i].body.text

\* what the normalizer matching the transport makes of the i-th answer
NormalizerOutcome(i) ==
    IF useStreaming
    THEN [ kind |-> "return", error |-> NoError,
           result |-> << parseSSEResponse(BodyLines(responses[i].body), gcModel) >> ]
    ELSE IF responses[i].body.form = "json"
    THEN [ kind |-> "return", error |-> NoError,
           result |-> << parseResponse(Unwrap(responses[i].body.doc), gcModel) >> ]
    ELSE [ kind |-> "throw", result |-> << >>,
           error |-> Error(JsonErrorMessage(responses[i].body)) ]

\* C1: whenever an endpoint has answered with a 4xx status other than 429,
\* the call has failed with that error and no request was sent to a later
\* endpoint (one request in all when it was the first endpoint), whatever
\* the error body is.
C1_FatalStatusStopsDispatch ==
    \A i \in 1..Len(responses) :
        ( /\ IsHttp(i)
          /\ responses[i].status >= 400
          /\ responses[i].status < 500
          /\ responses[i].status # 429 )
        => /\ gcPc = "done"
           /\ Len(requests) = i
           /\ gcOutcome.kind = "throw"
           /\ gcOutcome.error.message = HttpFailureMessage(i)

\* C2: when the first endpoint answered 429 or 5xx, its error is recorded and
\* the second endpoint of API_ENDPOINTS is asked; when that one answers with
\* success the call ends after exactly two requests with what the normalizer
\* makes of the second answer.
C2_RetryableThenSuccess ==
    ( /\ Len(responses) >= 1
      /\ IsHttp(1)
      /\ (responses[1].status = 429 \/ (responses[1].status >= 500 /\ responses[1].status <= 599)) )
    => /\ Len(requests) = 2
       /\ requests[1].endpoint = API_ENDPOINTS[1]
       /\ requests[2].endpoint = API_ENDPOINTS[2]
       /\ requests[2].path = requests[1].path
       /\ Len(responses) = 1 =>
             /\ gcPc = "awaiting"
             /\ lastError = Error(HttpFailureMessage(1))
       /\ (Len(responses) = 2 /\ IsSuccess(2)) =>
             /\ gcPc = "done"
             /\ gcOutcome = NormalizerOutcome(2)

C2_Witness ==
    /\ Len(responses) = 2
    /\ ~useStreaming /\ Len(gcModel) = 16
    /\ IsHttp(1) /\ responses[1].status = 503 /\ responses[1].body.text = << >>
    /\ IsSuccess(2) /\ responses[2].body = JsonBody(WrappedDoc)
    /\ gcOutcome.kind = "return"
    /\ Len(gcOutcome.result[1].content) = 2

\* C3: once an endpoint has answered with a success status the call has ended
\* with the normalizer's result for that answer and no further endpoint was
\* contacted, whatever the body is.
C3_SuccessEndsDispatch ==
    \A i \in 1..Len(responses) :
        IsSuccess(i)
        => /\ gcPc = "done"
           /\ Len(requests) = i
           /\ gcOutcome = NormalizerOutcome(i)

\* the error of the i-th attempt, when it failed
AttemptError(i) ==
    IF ~IsHttp(i) THEN Error(responses[i].message)
    ELSE IF ~IsSuccess(i) THEN Error(HttpFailureMessage(i))
    ELSE Error(JsonErrorMessage(responses[i].body))

\* C4: when every endpoint has been tried and the call failed, the error
\* thrown is the one of the last failing attempt (for an HTTP failure the
\* message with that endpoint's status and body), and 'All endpoints failed'
\* is thrown only when no error was recorded.
C4_LastErrorSurfaces ==
    /\ ( /\ gcPc = "done"
         /\ Len(responses) = Len(API_ENDPOINTS)
         /\ gcOutcome.kind = "throw" )
       => /\ gcOutcome.error = AttemptError(Len(responses))
          /\ lastError = gcOutcome.error
    /\ ( /\ gcPc = "done"
         /\ gcOutcome.kind = "throw"
         /\ gcOutcome.error.message = AllEndpointsFailed )
       => ~lastError.present

C4_Witness ==
    /\ gcPc = "done"
    /\ Len(responses) = 2
    /\ IsHttp(1) /\ responses[1].status = 429
    /\ IsHttp(2) /\ responses[2].status = 503 /\ responses[2].body.text = << "n", "o", "t", " ", "f", "o", "u", "n", "d" >>
    /\ responses[1].body.text = << >>
    /\ useStreaming /\ Len(gcModel) = 14
    /\ gcOutcome.kind = "throw"

-----------------------------------------------------------------------------
(* Claims about getAccessToken (SpecToken)                                 *)

\* caller p starts a call for `email` in this step
StartsCall(p, email) ==
    /\ tkPc[p] = "idle"
    /\ \/ tkPc'[p] = "refreshing" /\ tkAccount'[p] = email
       \/ tkPc'[p] = "idle" /\ tkOutcome'[p] # tkOutcome[p] /\ tkOutcome'[p].email = email

\* the exchange of caller p is answered in this step
EndsExchange(p) == tkPc[p] = "refreshing" /\ tkPc'[p] = "idle"

\* the cache holds an entry for `email` that expires later than the current time
HoldsUnexpired(email) ==
    /\ tokenCache[email].present
    /\ ~tokenCache[email].expiresAt.nan
    /\ tokenCache[email].expiresAt.v > clock

\* C5: a call that finds an entry for account.email whose expiresAt is later
\* than the current time returns that entry's accessToken, sends nothing to
\* the token endpoint and leaves the cache unchanged.
C5_CacheHit ==
    [][ \A p \in Callers, email \in Emails :
          (StartsCall(p, email) /\ HoldsUnexpired(email))
          => /\ tkPc'[p] = "idle"
             /\ tkOutcome'[p].kind = "return"
             /\ tkOutcome'[p].token = tokenCache[email].accessToken
             /\ tokenRequests' = tokenRequests
             /\ tokenCache' = tokenCache ]_vars

C5_Witness ==
    \E p \in Callers :
        /\ tkOutcome[p].kind = "return"
        /\ tkOutcome[p].answer = "none"
        /\ tokenCache[tkOutcome[p].email].present
        /\ tokenCache[tkOutcome[p].email].accessToken = tkOutcome[p].token
        /\ clock > 0

\* C6: a call that finds no entry for account.email, or one whose expiresAt is
\* not in the future, sends exactly one exchange; when it is answered with
\* success the call returns the token of that exchange (not the one cached
\* before) and stores under that email an entry that expires
\* min(expiresIn - 60, 300) seconds after the time the call read, for every
\* expiresIn reported.
C6_CacheMiss ==
    [][ \A p \in Callers :
          /\ \A email \in Emails :
                (StartsCall(p, email) /\ ~HoldsUnexpired(email))
                => /\ tkPc'[p] = "refreshing"
                   /\ Len(tokenRequests') = Len(tokenRequests) + 1
                   /\ SubSeq(tokenRequests', 1, Len(tokenRequests)) = tokenRequests
                   /\ tokenRequests'[Len(tokenRequests')].caller = p
                   /\ tokenRequests'[Len(tokenRequests')].email = email
                   /\ tokenCache' = tokenCache
          /\ (EndsExchange(p) /\ tkOutcome'[p].answer = "ok")
             => /\ tokenRequests' = tokenRequests
                /\ tkOutcome'[p].kind = "return"
                /\ tkOutcome'[p].token = IssuedToken(tkReq[p])
                /\ tokenCache[tkAccount[p]].present
                      => tkOutcome'[p].token # tokenCache[tkAccount[p]].accessToken
                /\ tokenCache'[tkAccount[p]].present
                /\ tokenCache'[tkAccount[p]].accessToken = tkOutcome'[p].token
                /\ \A e \in Emails \ {tkAccount[p]} : tokenCache'[e] = tokenCache[e]
                /\ tkOutcome'[p].expiresIn.present
                      => /\ ~tokenCache'[tkAccount[p]].expiresAt.nan
                         /\ tokenCache'[tkAccount[p]].expiresAt.v - tkNow[p]
                              = 1000 * Min(tkOutcome'[p].expiresIn.v - 60, 300) ]_vars

\* an expired entry has been replaced: the second exchange for one email, made
\* by the caller of the first, was answered with success and is now cached
C6_Witness ==
    \E p \in Callers :
        /\ Len(tokenRequests) >= 2
        /\ tokenRequests[1].caller = p /\ tokenRequests[2].caller = p
        /\ tokenRequests[1].email = tokenRequests[2].email
        /\ tkOutcome[p].kind = "return"
        /\ tkOutcome[p].answer = "ok"
        /\ tkOutcome[p].token = 2
        /\ tkOutcome[p].expiresIn = Given(200)
        /\ tokenCache[tkOutcome[p].email].accessToken = 2
        /\ tokenCache[tkOutcome[p].email].expiresAt.v = clock + 140000
        /\ clock > 0

\* C7: when the token endpoint answers the exchange with a non-success status
\* the call fails with an error carrying the upstream body, and neither the
\* start of the call nor its failure touches the cache.
C7_RefreshFailure ==
    [][ \A p \in Callers :
          /\ \A email \in Emails :
                (StartsCall(p, email) /\ tkPc'[p] = "refreshing") => tokenCache' = tokenCache
          /\ (EndsExchange(p) /\ tkOutcome'[p].answer = "notok")
             => /\ tkOutcome'[p].kind = "throw"
                /\ tkOutcome'[p].message = TokenRefreshFailed \o tkOutcome'[p].body
                /\ tokenCache' = tokenCache ]_vars

\* a refresh failed while the cache held an (expired) entry, which is still there
C7_Witness ==
    \E p \in Callers :
        /\ tkOutcome[p].kind = "throw"
        /\ tkOutcome[p].answer = "notok"
        /\ Len(tkOutcome[p].body) > 0
        /\ tokenCache[tkOutcome[p].email].present
        /\ tokenCache[tkOutcome[p].email].accessToken = 1
        /\ Len(tokenRequests) = 2
        /\ tokenRequests[2].email = tkOutcome[p].email
        /\ tokenRequests[2].caller = p

\* q is in an exchange for the same email as p, or has written that email's
\* cache entry from its own exchange
Overlaps(p, q) ==
    \/ tkPc[q] = "refreshing" /\ tkAccount[q] = tkAccount[p]
    \/ /\ tkPc[q] = "idle"
       /\ tkOutcome[q].kind = "return"
       /\ tkOutcome[q].answer = "ok"
       /\ tkOutcome[q].email = tkAccount[p]
       /\ tokenCache[tkAccount[p]].present
       /\ tokenCache[tkAccount[p]].accessToken = tkOutcome[q].token

\* C8: two calls for one email that both missed the cache each have an
\* exchange of their own at the token endpoint (two in all); each returns the
\* token of its own exchange, and each write replaces whatever the other call
\* has written, so the cache ends with the entry of the call that wrote last.
C8_NoSingleFlight ==
    /\ [] ( \A p, q \in Callers :
              ( /\ p # q
                /\ tkPc[p] = "refreshing" /\ tkPc[q] = "refreshing"
                /\ tkAccount[p] = tkAccount[q] )
              => /\ tkReq[p] # tkReq[q]
                 /\ tkReq[p] \in 1..Len(tokenRequests)
                 /\ tkReq[q] \in 1..Len(tokenRequests)
                 /\ tokenRequests[tkReq[p]].caller = p
                 /\ tokenRequests[tkReq[q]].caller = q
                 /\ tokenRequests[tkReq[p]].email = tkAccount[p]
                 /\ tokenRequests[tkReq[q]].email = tkAccount[p] )
    /\ [][ \A p, q \in Callers :
              ( /\ p # q
                /\ EndsExchange(p)
                /\ tkOutcome'[p].answer = "ok"
                /\ Overlaps(p, q) )
              => /\ tkOutcome'[p].kind = "return"
                 /\ tkOutcome'[p].token = IssuedToken(tkReq[p])
                 /\ tokenCache'[tkAccount[p]].accessToken = IssuedToken(tkReq[p])
                 /\ tkOutcome'[q] = tkOutcome[q] ]_vars

\* both calls ran at time 0 with long-lived tokens, so neither could have
\* started after the other had written: they interleaved
C8_Witness ==
    /\ clock = 0
    /\ tkOutcome["c1"].kind = "return" /\ tkOutcome["c2"].kind = "return"
    /\ tkOutcome["c1"].answer = "ok" /\ tkOutcome["c2"].answer = "ok"
    /\ tkOutcome["c1"].email = tkOutcome["c2"].email
    /\ tkOutcome["c1"].expiresIn = Given(3599) /\ tkOutcome["c2"].expiresIn = Given(3599)
    /\ tkOutcome["c1"].token = 1 /\ tkOutcome["c2"].token = 2
    /\ Len(tokenRequests) = 2
    /\ tokenCache[tkOutcome["c1"].email].accessToken = 1

-----------------------------------------------------------------------------
(* Claims about selectAccount (SpecSelect)                                 *)

\* the calls i..j of the log were all handed the same non-empty sequence
SameSequence(i, j) ==
    /\ i <= j
    /\ Len(selectLog[i].accounts) > 0
    /\ \A t \in i..j : selectLog[t].accounts = selectLog[i].accounts

\* C9: successive calls with one fixed sequence of K accounts return the
\* accounts in cyclic index order from the counter's offset at the first of
\* them, and each account is returned floor(N/K) or floor(N/K)+1 times.
C9_RoundRobin ==
    \A i, j \in 1..Len(selectLog) :
        SameSequence(i, j) =>
            LET accounts == selectLog[i].accounts
                K == Len(accounts)
                N == j - i + 1
            IN  /\ \A t \in i..j :
                      /\ selectLog[t].outcome.kind = "return"
                      /\ selectLog[t].outcome.index = (selectLog[i].before + (t - i)) % K
                      /\ selectLog[t].outcome.account = accounts[selectLog[t].outcome.index + 1]
                /\ \A k \in 0..(K - 1) :
                      Cardinality({ t \in i..j : selectLog[t].outcome.index = k })
                          \in { N \div K, (N \div K) + 1 }

\* three calls over two accounts, starting from an odd offset
C9_Witness ==
    /\ Len(selectLog) >= 4
    /\ SameSequence(Len(selectLog) - 2, Len(selectLog))
    /\ Len(selectLog[Len(selectLog)].accounts) = 2
    /\ selectLog[Len(selectLog) - 2].before = 1
    /\ selectLog[Len(selectLog)].outcome.index = 1

\* the last call logged, in the state after the step
LastCall == selectLog'[Len(selectLog')]

\* C10 as stated: the counter advances by exactly one on every selectAccount
\* call whatever its outcome, and the index used is the counter modulo the
\* length of the sequence passed.
C10_CounterAdvancesOnEveryCall ==
    [][ selectLog' # selectLog
        => /\ currentIndex' = currentIndex + 1
           /\ LastCall.outcome.kind = "return"
                 => LastCall.outcome.index = currentIndex % Len(LastCall.accounts) ]_vars

\* C10 amended: the counter never decreases; it advances by exactly one on
\* every call that returns an account and stays as it is on a call that
\* throws for an empty sequence; the index used is the counter modulo the
\* length of the sequence passed.
C10_CounterAdvancesOnReturn ==
    [][ selectLog' # selectLog
        => /\ currentIndex' >= currentIndex
           /\ Len(LastCall.accounts) = 0
                 => /\ LastCall.outcome.kind = "throw"
                    /\ currentIndex' = currentIndex
           /\ Len(LastCall.accounts) > 0
                 => /\ LastCall.outcome.kind = "return"
                    /\ currentIndex' = currentIndex + 1
                    /\ LastCall.outcome.index = currentIndex % Len(LastCall.accounts)
                    /\ LastCall.outcome.account
                          = LastCall.accounts[LastCall.outcome.index + 1] ]_vars

\* a call that threw, between two calls that returned
C10_Witness ==
    /\ Len(selectLog) = 3
    /\ selectLog[1].outcome.kind = "return"
    /\ selectLog[2].outcome.kind = "throw"
    /\ selectLog[3].outcome.kind = "return"
    /\ currentIndex = 2

-----------------------------------------------------------------------------
(* accounts module: claims C11, C12, C14 and C15, under SpecStore          *)

\* a call that returned the enabled accounts has just ended
ReturnedEnabled ==
    /\ lastOp.op \in { "getEnabledAccounts", "auth.loadAccounts" }
    /\ ~lastOp.raised

\* the k-th smallest member of a set of positions
KthOf(positions, k) ==
    CHOOSE i \in positions : Cardinality({ j \in positions : j <= i }) = k

\* out is the order-preserving subsequence of all made of the positions kept
IsSubsequenceAt(out, all, kept) ==
    /\ Len(out) = Cardinality(kept)
    /\ \A k \in 1..Len(out) : out[k] = all[KthOf(kept, k)]

\* C11 as stated: getEnabledAccounts returns the order-preserving subsequence
\* of loadAccounts made of the records that are not disabled and carry no
\* invalid flag, whether the flag is persisted as invalid or as isInvalid.
C11_ExcludesEitherInvalidFlag ==
    ReturnedEnabled =>
        LET all == loadAccounts(primary, fallback)
        IN  IsSubsequenceAt(lastOp.accounts, all,
                { i \in 1..Len(all) : /\ all[i].enabled # "false"
                                      /\ ~all[i].isInvalid
                                      /\ ~all[i].invalid })

\* C11 amended: getEnabledAccounts returns the order-preserving subsequence
\* of loadAccounts made of the records whose enabled field is not false and
\* whose isInvalid field is not set; a field named invalid is not looked at.
C11_ExcludesDisabledAndIsInvalid ==
    ReturnedEnabled =>
        LET all == loadAccounts(primary, fallback)
        IN  /\ IsSubsequenceAt(lastOp.accounts, all,
                  { i \in 1..Len(all) : /\ all[i].enabled # "false"
                                        /\ ~all[i].isInvalid })
            /\ \A k \in 1..Len(lastOp.accounts) :
                  /\ lastOp.accounts[k].enabled # "false"
                  /\ ~lastOp.accounts[k].isInvalid

\* a disabled record is dropped and a record flagged invalid is kept
C11_Witness ==
    /\ lastOp.op = "getEnabledAccounts"
    /\ fallback = FileOf("absent")
    /\ primary = File(<< StoreRecord("a@x", RefreshOf("a@x"), "false", FALSE, FALSE),
                         StoreRecord("b@x", RefreshOf("b@x"), "true", FALSE, TRUE) >>)
    /\ lastOp.accounts = << StoreRecord("b@x", RefreshOf("b@x"), "true", FALSE, TRUE) >>

\* C12: loadAccounts returns the fallback location's accounts whenever the
\* primary location is absent or holds zero accounts and the fallback
\* location holds at least one account.
C12_FallbackWhenPrimaryEmpty ==
    ( /\ lastOp.op = "loadAccounts"
      /\ Len(loadAccountsFromOwnConfig(primary)) = 0
      /\ Len(loadFallbackAccounts(fallback)) > 0 )
    => lastOp.accounts = loadFallbackAccounts(fallback)

\* C14: loadAccounts of the accounts module never raises: whether each
\* location is absent, holds an accounts file or holds text that does not
\* parse, it returns a sequence, which is empty when neither location yields
\* an account; getEnabledAccounts therefore never raises either.
C14_LoadNeverRaises ==
    lastOp.op \in { "loadAccounts", "getEnabledAccounts" } =>
        /\ ~lastOp.raised
        /\ DOMAIN lastOp.accounts = 1..Len(lastOp.accounts)
        /\ ( /\ Len(loadAccountsFromOwnConfig(primary)) = 0
             /\ Len(loadFallbackAccounts(fallback)) = 0 )
           => lastOp.accounts = << >>

\* both locations hold text that does not parse and the load returned empty
C14_Witness ==
    /\ lastOp.op = "loadAccounts"
    /\ primary = FileOf("malformed")
    /\ fallback = FileOf("malformed")
    /\ ~lastOp.raised
    /\ lastOp.accounts = << >>

\* no two records of a list carry the same email
UniqueEmails(accounts) ==
    \A i, j \in 1..Len(accounts) : i # j => accounts[i].email # accounts[j].email

\* C15: the persisted primary store never holds two records with the same
\* email, and addAccount of an email already present replaces the refresh
\* credential of that record at its position, leaving the length and every
\* other record as they were.
C15_UniqueEmails ==
    /\ [](UniqueEmails(ReadAccounts(primary)))
    /\ [][ LET before == loadAccountsFromOwnConfig(primary)
               at     == FindIndex(before, lastOp'.email)
           IN  (lastOp'.op = "addAccount" /\ at > 0) =>
                 /\ primary'.kind = "json"
                 /\ Len(primary'.accounts) = Len(before)
                 /\ lastOp'.count = Len(before)
                 /\ primary'.accounts[at].email = lastOp'.email
                 /\ primary'.accounts[at].refreshToken = lastOp'.refreshToken
                 /\ primary'.accounts[at].enabled = before[at].enabled
                 /\ \A i \in 1..Len(before) :
                       i # at => primary'.accounts[i] = before[i] ]_vars

\* the disabled record of a@x, first of two, was given a new credential in place
C15_Witness ==
    /\ lastOp.op = "addAccount"
    /\ lastOp.email = "a@x"
    /\ lastOp.count = 2
    /\ fallback = FileOf("absent")
    /\ primary = File(<< StoreRecord("a@x", << "n" >>, "false", FALSE, FALSE),
                         StoreRecord("b@x", RefreshOf("b@x"), "absent", FALSE, FALSE) >>)

-----------------------------------------------------------------------------
(* constants module: claim C20, under SpecClassify                         *)

\* the name a call was made with, lower-cased
CalledLower == ToLower(OrEmpty(cmName))

\* the number after the occurrence of 'gemini-' at position i
VersionAt(lower, i) ==
    ParseInt(SubSeq(lower, i + Len(GeminiDash), DigitRunEnd(lower, i + Len(GeminiDash))))

Gemini3Flash == << "g", "e", "m", "i", "n", "i", "-", "3", "-", "f", "l", "a", "s", "h" >>
Gemini25Flash == << "g", "e", "m", "i", "n", "i", "-", "2", ".", "5", "-", "f", "l", "a", "s", "h" >>

\* C20 as stated: isThinkingModel is true exactly when the lower-cased name
\* contains 'thinking' or contains, anywhere, 'gemini-<N>' with N >= 3.
C20_AnyVersionOccurrence ==
    cmResult # "none" =>
        ( cmResult = "true" <=>
            \/ Includes(CalledLower, Thinking)
            \/ \E i \in VersionMatches(CalledLower) : VersionAt(CalledLower, i) >= 3 )

\* C20 amended: isThinkingModel is true exactly when the lower-cased name
\* contains 'thinking' or its leftmost occurrence of 'gemini-<digits>' has a
\* number of at least 3; it is false for the empty and the missing name,
\* true for gemini-3-flash and for a 2.5 name that says Thinking, and false
\* for gemini-2.5-flash.
C20_LeftmostVersionOccurrence ==
    cmResult # "none" =>
        /\ cmResult \in { "true", "false" }
        /\ cmResult = "true" <=>
              \/ Includes(CalledLower, Thinking)
              \/ \E i \in VersionMatches(CalledLower) :
                    /\ \A j \in VersionMatches(CalledLower) : i <= j
                    /\ VersionAt(CalledLower, i) >= 3
        /\ (~cmName.present \/ cmName.text = << >>) => cmResult = "false"
        /\ cmName = Name(Gemini3Flash) => cmResult = "true"
        /\ cmName = Name(Gemini25Flash) => cmResult = "false"
        /\ (cmName.present /\ cmName.text \in Models /\ Includes(CalledLower, Thinking))
              => cmResult = "true"

\* a name whose leftmost version is 2 and whose later version is 3 was
\* classified as not thinking
C20_Witness ==
    /\ cmName = Name(GeminiDash \o << "2" >> \o GeminiDash \o << "3" >>)
    /\ cmResult = "false"

-----------------------------------------------------------------------------
(* server module: claims C13 and C16 to C19, under SpecServer              *)

\* C13: no operation writes the fallback location, and a step that changes
\* the primary location is an addAccount or a removeAccount: every step of a
\* tool call (reload of the accounts, selectAccount, getAccessToken with its
\* refresh, the dispatch) and every listAccounts leaves both files as they
\* were, so a refreshed token is never persisted.
C13_OnlyAddAndRemoveWrite ==
    [][ /\ fallback' = fallback
        /\ primary' # primary =>
              /\ lastOp'.op \in { "addAccount", "removeAccount" }
              /\ UNCHANGED <<serverVars, selectVars, tokenVars, dispatchVars>> ]_vars

\* a call refreshed the token of a@x and was answered; the file still holds
\* the credential it held at the start
C13_Witness ==
    /\ srvCalls = 1
    /\ srvPc = "idle"
    /\ srvTool = "gemini_generate"
    /\ srvModel = Text("gemini-3-flash")
    /\ srvAsked
    /\ Len(srvSent) = 1
    /\ srvResult.kind = "result"
    /\ ~srvResult.isError
    /\ tokenCache["a@x"].present
    /\ tokenCache["a@x"].expiresAt = Num(TOKEN_CACHE_TTL_MS)
    /\ lastOp = Op("none")
    /\ fallback = FileOf("absent")
    /\ primary = File(<< StoreRecord("a@x", RefreshOf("a@x"), "true", FALSE, FALSE) >>)

\* the message of the error raised when the handler has no account
NoAccountsText ==
    Text("No Antigravity accounts configured. Run: antigravity-claude-proxy accounts add")

\* C16: every tool call operates on the accounts enabled in the files when it
\* starts, and a call that starts when no account is enabled is answered
\* with the 'no accounts configured' message without any exchange with the
\* token endpoint and without any upstream request.
C16_CallUsesEnabledAccounts ==
    [][ srvCalls' = srvCalls + 1 =>
          IF Len(getEnabledAccounts(primary, fallback)) = 0
          THEN /\ srvResult'.kind = "raised"
               /\ srvResult'.text = NoAccountsText
               /\ srvPc' = "idle"
               /\ ~srvAsked'
               /\ srvSent' = << >>
               /\ tokenRequests' = tokenRequests
          ELSE srvAccounts' = getEnabledAccounts(primary, fallback) ]_vars

\* the call under way, if any, has just ended
CallEnds == srvPc # "idle" /\ srvPc' = "idle"

\* the prefix test of a text
StartsWith(text, prefix) ==
    Len(text) >= Len(prefix) /\ SubSeq(text, 1, Len(prefix)) = prefix

\* the errors getAccessToken throws in the model
TokenErrorMessages == { TokenRefreshFailed \o << "b", "a", "d" >>, FetchFailed }

C18_RotatesToAnotherAccount ==
    ( /\ srvPc = "idle"
      /\ srvResult.kind = "result"
      /\ srvAccount # NoAccount
      /\ Len(srvAccounts) >= 2 )
    => /\ srvResult.text # Text("Error: ") \o ApiError(429, << >>).message
       /\ \A m \in TokenErrorMessages : srvResult.text # Text("Error: ") \o m

\* C19: a call sends upstream requests only after getAccessToken returned
\* for the account selectAccount chose in that call; every request carries
\* the token issued to an exchange made with that account's credential; a
\* failed refresh ends the call with no upstream request.
C19_PipelineOrder ==
    /\ []( /\ srvPc = "token" => (srvSent = << >> /\ srvToken = 0)
           /\ \A i \in 1..Len(srvSent) :
                 /\ srvSent[i].bearer = srvToken
                 /\ srvToken \in 1..Len(tokenRequests)
                 /\ tokenRequests[srvToken].email = srvAccount.email
                 /\ tokenRequests[srvToken].refresh_token
                       = parseRefreshToken(srvAccount.refreshToken)
                 /\ srvSent[i].endpoint = API_ENDPOINTS[i]
           /\ srvSent # << >> =>
                 \E k \in 1..Len(srvAccounts) : srvAccounts[k] = srvAccount )
    /\ [][ /\ (srvCalls' = srvCalls + 1 /\ srvPc' # "idle") =>
                /\ srvAccount' = srvAccounts'[(currentIndex % Len(srvAccounts')) + 1]
                /\ currentIndex' = currentIndex + 1
           /\ (srvPc = "token" /\ srvPc' = "idle") =>
                /\ srvSent' = << >>
                /\ srvResult'.isError ]_vars

\* the second call for a@x found the token of the first call in the cache
\* and sent it to the first endpoint
C19_Witness ==
    /\ srvCalls = 2
    /\ srvPc = "api"
    /\ srvTool = "gemini_list_models"
    /\ ~srvAsked
    /\ srvAccount.email = "a@x"
    /\ srvToken = 1
    /\ Len(tokenRequests) = 1
    /\ Len(srvSent) = 1
    /\ srvSent[1].bearer = 1
    /\ lastOp = Op("none")
    /\ fallback = FileOf("absent")
    /\ primary = File(<< StoreRecord("a@x", RefreshOf("a@x"), "true", FALSE, FALSE) >>)

-----------------------------------------------------------------------------
(* Claims about the transport of generateContent (SpecDispatch)            *)

\* C21: in every dispatch, whatever its thinking option is, every request
\* sent has the streaming shape (streamGenerateContent?alt=sse, Accept
\* text/event-stream) when isThinkingModel(model) holds and the buffered
\* shape (generateContent, Accept application/json) when it does not, and a
\* success answer is turned into the result of the streaming normalizer in
\* the first case and of the buffered normalizer in the second.
C21_TransportFollowsModelOnly ==
    gcPc # "idle" =>
        LET streaming == isThinkingModel(gcModel) IN
        /\ \A i \in 1..Len(requests) :
              /\ requests[i].path = IF streaming
                                    THEN "/v1internal:streamGenerateContent?alt=sse"
                                    ELSE "/v1internal:generateContent"
              /\ requests[i].accept = IF streaming THEN "text/event-stream"
                                                   ELSE "application/json"
        /\ \A i \in 1..Len(responses) :
              (IsSuccess(i) /\ gcOutcome.kind = "return") =>
                  gcOutcome.result[1] =
                      IF streaming
                      THEN parseSSEResponse(BodyLines(responses[i].body), gcModel)
                      ELSE parseResponse(Unwrap(responses[i].body.doc), gcModel)

\* a thinking-capable model asked without thinking: two streaming requests,
\* the second one answered with frames
C21_Witness ==
    /\ gcPc = "done"
    /\ ~gcThinking
    /\ isThinkingModel(gcModel) /\ Len(gcModel) = 14
    /\ Len(requests) = 2
    /\ IsHttp(1) /\ responses[1].status = 503 /\ responses[1].body.text = << >>
    /\ IsSuccess(2) /\ responses[2].body = SSEBody(SampleLines)
    /\ gcOutcome.kind = "return"
    /\ Len(gcOutcome.result[1].content) = 2

-----------------------------------------------------------------------------
(* Claims about the request builder (SpecApi)                              *)

BuildReturned == apiPc = "returned" /\ apiCall.fn \in { "buildRequest" } \cup GeneratingTools

\* the payload a returned call of the builder produced
Payload == apiReturn.payload[1]

\* C22: the payload of every built request has maxOutputTokens at most 16384;
\* it is min(maxTokens, 16384) for the maxTokens the caller asked for and
\* 8192 when the caller gave none (for a tool call: no max_tokens argument,
\* or the argument 0, which the handler takes for none).
C22_MaxOutputTokensClamped ==
    BuildReturned =>
        LET out   == Payload.request.generationConfig.maxOutputTokens
            asked == IF apiCall.fn = "buildRequest" THEN apiCall.options[1].maxTokens
                                                    ELSE apiCall.args[1].max_tokens
            none  == ~asked.present \/ (apiCall.fn # "buildRequest" /\ asked.v = 0)
        IN  /\ out <= 16384
            /\ none => out = 8192
            /\ ~none => out = IF asked.v <= 16384 THEN asked.v ELSE 16384

\* the builder was asked for 100000 tokens and the payload carries 16384
C22_Witness ==
    /\ BuildReturned
    /\ apiCall.fn = "buildRequest"
    /\ apiCall.options[1].maxTokens.present
    /\ apiCall.options[1].maxTokens.v = 100000
    /\ Payload.request.generationConfig.maxOutputTokens = 16384
    /\ Len(apiCall.options[1].model) = 14
    /\ ~apiCall.options[1].system.present
    /\ ~apiCall.options[1].thinking.present
    /\ ~apiCall.projectId.present

\* C23: the payload of a built request carries thinkingConfig exactly when
\* thinking was requested and isThinkingModel holds of the model the payload
\* names; a direct caller requests it with thinking.type = 'enabled', a tool
\* call requests it unless its thinking argument is false.
C23_ThinkingConfigIffRequestedAndCapable ==
    BuildReturned =>
        LET requested == IF apiCall.fn = "buildRequest"
                         THEN /\ apiCall.options[1].thinking.present
                              /\ apiCall.options[1].thinking.type = "enabled"
                         ELSE apiCall.args[1].thinking # "false"
        IN  Payload.request.generationConfig.thinkingConfig.present
                <=> (requested /\ isThinkingModel(Payload.model))

\* a tool call that names neither a model nor a thinking argument: the
\* payload is for gemini-3-flash and carries thinkingConfig
C23_Witness ==
    /\ BuildReturned
    /\ apiCall.fn = "gemini_generate"
    /\ ~apiCall.args[1].model.present
    /\ apiCall.args[1].thinking = "absent"
    /\ ~apiCall.args[1].system.present
    /\ ~apiCall.args[1].max_tokens.present
    /\ ~apiCall.projectId.present
    /\ Payload.model = Text("gemini-3-flash")
    /\ Payload.request.generationConfig.thinkingConfig.present
    /\ Payload.request.generationConfig.thinkingConfig.thinkingBudget = 16000

-----------------------------------------------------------------------------
(* Claims about the normalizers (SpecApi)                                  *)

BufferedReturned == apiPc = "returned" /\ apiCall.fn = "normalize" /\ ~apiCall.streaming
StreamReturned == apiPc = "returned" /\ apiCall.fn = "normalize" /\ apiCall.streaming

\* what a returned call of a normalizer produced
Normalized == apiReturn.step[1].result[1]

\* the lines of the stream a streaming call was given
StreamLines == apiCall.body[1].lines

\* the candidates a document shows once one envelope, if any, is taken off
DocCandidates(doc) == IF doc.depth <= 1 THEN doc.candidates ELSE << >>

\* the usage metadata a document shows once one envelope, if any, is taken off
DocUsage(doc) == IF doc.depth <= 1 THEN doc.usage ELSE Absent

\* a line that is a frame: it has the marker and its payload is JSON
IsFrame(line) == line.marker /\ line.json.present

\* the finish reason of the first candidate of a line, "" when it has none
FinishOf(line) ==
    IF IsFrame(line) /\ Len(DocCandidates(line.json.v)) > 0
    THEN DocCandidates(line.json.v)[1].finishReason
    ELSE ""

\* the finish reason the last frame carrying one has, "" when none has
LastFinish(lines) ==
    LET carrying == { i \in 1..Len(lines) : FinishOf(lines[i]) # "" }
    IN  IF carrying = {} THEN ""
        ELSE FinishOf(lines[CHOOSE i \in carrying : \A j \in carrying : j <= i])

\* the stop-reason table of the specification
StopReasonOf(finishReason) ==
    CASE finishReason = "STOP" -> "end_turn"
      [] finishReason = "MAX_TOKENS" -> "max_tokens"
      [] finishReason \in { "SAFETY", "RECITATION" } -> "content_filter"
      [] OTHER -> "end_turn"

\* C24: the result of the buffered normalizer has the stop_reason the table
\* gives for the finish reason of the first candidate, and the result of the
\* streaming normalizer the one it gives for the finish reason of the last
\* frame carrying one: STOP end_turn, MAX_TOKENS max_tokens, SAFETY and
\* RECITATION content_filter, anything else or none end_turn.
C24_SameStopReasonMapping ==
    /\ BufferedReturned =>
          LET cands == DocCandidates(apiCall.body[1].doc)
          IN  Normalized.stop_reason =
                  StopReasonOf(IF Len(cands) > 0 THEN cands[1].finishReason ELSE "")
    /\ StreamReturned =>
          Normalized.stop_reason = StopReasonOf(LastFinish(StreamLines))

\* the parts of the first candidates of the frames of a stream, in arrival order
RECURSIVE StreamParts(_)
StreamParts(lines) ==
    IF Len(lines) = 0 THEN << >>
    ELSE LET line  == Head(lines)
             cands == IF IsFrame(line) THEN DocCandidates(line.json.v) ELSE << >>
         IN  (IF Len(cands) > 0 THEN cands[1].parts ELSE << >>) \o StreamParts(Tail(lines))

\* the texts of a sequence, one after the other
RECURSIVE Concat(_)
Concat(texts) == IF Len(texts) = 0 THEN << >> ELSE Head(texts) \o Concat(Tail(texts))

\* C25: the content of the streaming normalizer's result is a thinking block
\* holding the thoughts of all parts of the frames in arrival order, when
\* there is any, followed by a text block holding the texts of all parts
\* without a thought in arrival order, when there is any, and nothing else.
C25_StreamContentIsThinkingThenText ==
    StreamReturned =>
        LET parts    == StreamParts(StreamLines)
            thoughts == Concat([ i \in 1..Len(parts) |-> parts[i].thought ])
            texts    == Concat([ i \in 1..Len(parts) |->
                                    IF Len(parts[i].thought) = 0 THEN parts[i].text ELSE << >> ])
        IN  Normalized.content =
                (IF Len(thoughts) > 0 THEN << [ type |-> "thinking", text |-> thoughts ] >>
                                      ELSE << >>)
                \o
                (IF Len(texts) > 0 THEN << [ type |-> "text", text |-> texts ] >> ELSE << >>)

\* the frames text b, thought a, text c arrived in this order: the result is
\* the thinking block a followed by the text block bc
C25_Witness ==
    /\ StreamReturned
    /\ Len(StreamLines) = 3
    /\ \A i \in 1..3 : IsFrame(StreamLines[i]) /\ StreamLines[i].json.v.depth = 0
                       /\ Len(StreamLines[i].json.v.candidates) = 1
    /\ StreamLines[1].json.v.candidates[1].parts = << Part(<< >>, << "b" >>) >>
    /\ StreamLines[2].json.v.candidates[1].parts = << Part(<< "a" >>, << >>) >>
    /\ StreamLines[3].json.v.candidates[1].parts = << Part(<< >>, << "c" >>) >>
    /\ Normalized.content = << [ type |-> "thinking", text |-> << "a" >> ],
                               [ type |-> "text", text |-> << "b", "c" >> ] >>
    /\ Normalized.stop_reason = "end_turn"

\* C26: the usage of the streaming normalizer's result is that of the last
\* frame carrying usage metadata, and 0 for both counts when no frame does.
C26_StreamUsageLastWins ==
    StreamReturned =>
        LET carrying == { i \in 1..Len(StreamLines) :
                            /\ IsFrame(StreamLines[i])
                            /\ DocUsage(StreamLines[i].json.v).present }
            last == CHOOSE i \in carrying : \A j \in carrying : j <= i
        IN  Normalized.usage =
                IF carrying = {}
                THEN [ input_tokens |-> 0, output_tokens |-> 0 ]
                ELSE [ input_tokens  |-> DocUsage(StreamLines[last].json.v).v[1],
                       output_tokens |-> DocUsage(StreamLines[last].json.v).v[2] ]

\* usage 3/5, then 7/0, then a frame without usage: the result says 7/0
C26_Witness ==
    /\ StreamReturned
    /\ Len(StreamLines) = 3
    /\ \A i \in 1..3 : IsFrame(StreamLines[i]) /\ StreamLines[i].json.v.depth = 0
    /\ StreamLines[1].json.v.usage.present /\ StreamLines[1].json.v.usage.v = << 3, 5 >>
    /\ StreamLines[2].json.v.usage.present /\ StreamLines[2].json.v.usage.v = << 7, 0 >>
    /\ ~StreamLines[3].json.v.usage.present
    /\ Len(StreamLines[3].json.v.candidates) = 1
    /\ StreamLines[3].json.v.candidates[1].finishReason = ""
    /\ StreamLines[3].json.v.candidates[1].parts = << Part(<< "a" >>, << >>) >>
    /\ Normalized.usage = [ input_tokens |-> 7, output_tokens |-> 0 ]

\* C27: a streaming call never raises, and its result is the one the
\* streaming normalizer gives for the frames alone, i.e. for the stream
\* without its lines lacking the marker and its lines that are not JSON,
\* wherever in the stream those lines are.
C27_JunkLinesChangeNothing ==
    StreamReturned =>
        /\ apiReturn.step[1].act = "return"
        /\ Normalized = parseSSEResponse(SelectSeq(StreamLines, IsFrame), apiCall.model)

\* a `data: ` line that is not JSON between the frames thought a and text c
C27_Witness ==
    /\ StreamReturned
    /\ Len(StreamLines) = 3
    /\ IsFrame(StreamLines[1]) /\ IsFrame(StreamLines[3])
    /\ StreamLines[2].marker /\ ~StreamLines[2].json.present
    /\ StreamLines[1].json.v.depth = 0 /\ StreamLines[3].json.v.depth = 0
    /\ Len(StreamLines[1].json.v.candidates) = 1 /\ Len(StreamLines[3].json.v.candidates) = 1
    /\ StreamLines[1].json.v.candidates[1].parts = << Part(<< "a" >>, << >>) >>
    /\ StreamLines[3].json.v.candidates[1].parts = << Part(<< >>, << "c" >>) >>
    /\ Normalized.content = << [ type |-> "thinking", text |-> << "a" >> ],
                               [ type |-> "text", text |-> << "c" >> ] >>
    /\ Normalized.usage = [ input_tokens |-> 3, output_tokens |-> 5 ]

\* a line with the envelope of its payload, if it has one, taken off by hand;
\* a payload inside two envelopes shows nothing, like the empty object
Bare(line) ==
    IF ~IsFrame(line) \/ line.json.v.depth = 0 THEN line
    ELSE IF line.json.v.depth = 1 THEN Line(TRUE, Given([line.json.v EXCEPT !.depth = 0]))
    ELSE Line(TRUE, Given(Doc(0, Absent, << >>)))

C29_FirstCandidateBlocksInPartOrder ==
    BufferedReturned =>
        LET cands == DocCandidates(apiCall.body[1].doc)
            Carries(part) == Len(part.thought) > 0 \/ Len(part.text) > 0
            kept == IF Len(cands) > 0 THEN SelectSeq(cands[1].parts, Carries) ELSE << >>
        IN  /\ Len(Normalized.content) = Len(kept)
            /\ \A i \in 1..Len(kept) :
                  Normalized.content[i] =
                      IF Len(kept[i].thought) > 0
                      THEN [ type |-> "thinking", text |-> kept[i].thought ]
                      ELSE [ type |-> "text", text |-> kept[i].text ]

\* two candidates, the first with the parts text b and thought a: the result
\* is the text block b followed by the thinking block a
C29_Witness ==
    /\ BufferedReturned
    /\ apiCall.body[1].doc.depth = 0
    /\ apiCall.body[1].doc.usage.present
    /\ Len(apiCall.body[1].doc.candidates) = 2
    /\ apiCall.body[1].doc.candidates[1].finishReason = "STOP"
    /\ apiCall.body[1].doc.candidates[1].parts = << Part(<< >>, << "b" >>), Part(<< "a" >>, << >>) >>
    /\ Normalized.content = << [ type |-> "text", text |-> << "b" >> ],
                               [ type |-> "thinking", text |-> << "a" >> ] >>
    /\ Normalized.stop_reason = "end_turn"

-----------------------------------------------------------------------------
(* Claims about the credential parts and the project of a payload (SpecApi) *)

\* the k-th field of a credential whose fields are separated by '|', empty
\* when it has fewer fields
FieldOf(credential, k) ==
    LET bars == { i \in 1..Len(credential) : credential[i] = "|" }
        BarAt(n) == IF n = 0 THEN 0
                    ELSE IF Cardinality(bars) < n THEN Len(credential) + 1
                    ELSE CHOOSE i \in bars : Cardinality({ j \in bars : j <= i }) = n
    IN  IF Cardinality(bars) < k - 1 THEN << >>
        ELSE SubSeq(credential, BarAt(k - 1) + 1, BarAt(k) - 1)

\* the stored credential of the account of a call, empty when it has none
CredentialOf(account) ==
    IF account.refreshToken.present THEN account.refreshToken.text ELSE << >>

DefaultProject ==
    << "r", "i", "s", "i", "n", "g", "-", "f", "a", "c", "t", "-", "p", "4", "1", "f", "c" >>

RefreshReturned == apiPc = "returned" /\ apiCall.fn = "refreshAccessToken"

\* C35: the refresh_token field of the exchange refreshAccessToken sends is
\* the part of the stored credential before its first '|' (the whole
\* credential when it has none); the call gets as far as the exchange for
\* every credential, and a second or third field that is missing or empty
\* is an absent project identifier.
C35_BareRefreshTokenSent ==
    RefreshReturned =>
        LET credential == CredentialOf(apiCall.account[1])
            sent       == apiReturn.step[1]
        IN  /\ sent.refresh_token = FieldOf(credential, 1)
            /\ \A i \in 1..Len(sent.refresh_token) : sent.refresh_token[i] # "|"
            /\ sent.parts.projectId.present <=> Len(FieldOf(credential, 2)) > 0
            /\ sent.parts.projectId.present =>
                  sent.parts.projectId.text = FieldOf(credential, 2)
            /\ sent.parts.managedProjectId.present <=> Len(FieldOf(credential, 3)) > 0
            /\ sent.parts.managedProjectId.present =>
                  sent.parts.managedProjectId.text = FieldOf(credential, 3)

\* the credential rc|p|m: the exchange carries rc
C35_Witness ==
    /\ RefreshReturned
    /\ apiCall.account[1].refreshToken = Name(<< "r", "c", "|", "p", "|", "m" >>)
    /\ ~apiCall.account[1].projectId.present
    /\ apiReturn.step[1].refresh_token = << "r", "c" >>
    /\ apiReturn.step[1].parts.projectId = Name(<< "p" >>)
    /\ apiReturn.step[1].parts.managedProjectId = Name(<< "m" >>)

-----------------------------------------------------------------------------
(* Claims about the termination of a dispatch (SpecDispatchFair)            *)

\* C32: when every upstream request completes or fails, a dispatch ends with
\* a result or an error; it sends at most one request per endpoint (at most
\* two), in the order of the endpoint list, and sends the next one only
\* after the previous one has been answered, so at most one is in flight.
C32_DispatchTerminatesWithinEndpoints ==
    /\ [](/\ Len(requests) <= Len(API_ENDPOINTS)
          /\ Len(requests) <= 2
          /\ \A i \in 1..Len(requests) : requests[i].endpoint = API_ENDPOINTS[i]
          /\ Len(responses) <= Len(requests)
          /\ Len(requests) - Len(responses) <= 1
          /\ gcPc = "awaiting" <=> Len(requests) = Len(responses) + 1
          /\ gcPc = "done" => gcOutcome.kind \in { "return", "throw" })
    /\ (gcPc = "awaiting" ~> gcPc = "done")

\* both endpoints were asked, the first failed over and the second answered
C32_Witness ==
    /\ gcPc = "done"
    /\ gcOutcome.kind = "return"
    /\ Len(requests) = 2
    /\ Len(responses) = 2
    /\ requests[2].endpoint = API_ENDPOINTS[2]
    /\ responses[1].kind = "http"
    /\ responses[1].status = 503
    /\ responses[2].status = 200

-----------------------------------------------------------------------------
(* Claims about the entries of the token cache                              *)

\* the entry is absent, or its expiresAt is not later than the given time
AbsentOrExpired(cached, now) ==
    \/ ~cached.present
    \/ cached.expiresAt.nan
    \/ cached.expiresAt.v <= now

\* an exchange starts only for an email whose entry is absent or expired
StartsOnAbsentOrExpired ==
    \A p \in Callers :
        (tkPc[p] = "idle" /\ tkPc'[p] = "refreshing") =>
            AbsentOrExpired(tokenCache[tkAccount'[p]], clock)

\* an entry that is there after a step and differs from what was there
\* before was written by a call for that email whose exchange succeeded
ChangesByOwnRefreshOnly ==
    \A e \in Emails :
        (tokenCache'[e].present /\ tokenCache'[e] # tokenCache[e]) =>
            \E p \in Callers :
                /\ tkPc[p] = "refreshing"
                /\ tkAccount[p] = e
                /\ tkPc'[p] = "idle"
                /\ tkOutcome'[p].kind = "return"
                /\ tkOutcome'[p].answer = "ok"
                /\ tokenCache'[e].accessToken = tkOutcome'[p].token

\* the step is a clearTokenCache call that covers the email
ClearedBy(e) ==
    /\ UNCHANGED <<clock, tkPc, tkAccount, tkNow, tkReq, tkOutcome, tokenRequests>>
    /\ \/ \A f \in Emails : ~tokenCache'[f].present
       \/ \A f \in Emails \ { e } : tokenCache'[f] = tokenCache[f]

\* C33 as stated: over any sequence of operations an email that has a cache
\* entry keeps having one, and an entry changes only by being overwritten by
\* a successful refresh for the same email that was started when the entry
\* was absent or expired.
C33_EntriesAreNeverRemoved ==
    [][ /\ \A e \in Emails : tokenCache[e].present => tokenCache'[e].present
        /\ ChangesByOwnRefreshOnly
        /\ StartsOnAbsentOrExpired ]_vars

\* C33: no getAccessToken call and no outcome of a refresh removes a cache
\* entry: an entry goes away only in a clearTokenCache call, for its email
\* or for all; otherwise an entry changes only by being overwritten by a
\* successful refresh for the same email that was started when the entry
\* was absent or expired.
C33_EntriesRemovedOnlyByClear ==
    [][ /\ \A e \in Emails :
              (tokenCache[e].present /\ ~tokenCache'[e].present) => ClearedBy(e)
        /\ ChangesByOwnRefreshOnly
        /\ StartsOnAbsentOrExpired ]_vars

\* the entry of a@x has been overwritten by a second successful refresh
\* that started after the first entry had expired, and b@x has its own
C33_Witness ==
    /\ tokenCache["a@x"].present
    /\ tokenCache["a@x"].accessToken = 2
    /\ tokenRequests[1].email = "a@x"
    /\ tokenRequests[2].email = "a@x"
    /\ tkOutcome["c1"].kind = "return"
    /\ tkOutcome["c1"].token = 1
    /\ tkOutcome["c2"].kind = "return"
    /\ tkOutcome["c2"].token = 2
    /\ tkPc["c2"] = "idle"
    /\ clock > 0

\* the bare refresh token of an email's stored credential
OwnRefreshToken(e) ==
    LET credential == RefreshOf(e)
        bars       == { i \in 1..Len(credential) : credential[i] = "|" }
    IN  IF bars = { } THEN credential
        ELSE SubSeq(credential, 1, (CHOOSE i \in bars : \A j \in bars : i <= j) - 1)

\* the access token was issued in an exchange made for the email with the
\* email's own refresh token
IssuedFor(token, e) ==
    /\ token \in 1..Len(tokenRequests)
    /\ tokenRequests[token].email = e
    /\ tokenRequests[token].refresh_token = OwnRefreshToken(e)

\* C34: under any interleaving of getAccessToken calls, the cache entry of
\* an email and the token returned for it come from an exchange made with
\* that email's own refresh credential, and a step of a call touches no
\* entry but the one of its own email.
C34_EntriesPerEmailIndependent ==
    /\ [](/\ \A e \in Emails :
                tokenCache[e].present => IssuedFor(tokenCache[e].accessToken, e)
          /\ \A p \in Callers :
                tkOutcome[p].kind = "return" => IssuedFor(tkOutcome[p].token, tkOutcome[p].email))
    /\ [][ \A p \in Callers :
              tkPc'[p] # tkPc[p] =>
                  \A f \in Emails :
                      tokenCache'[f] # tokenCache[f] => f \in { tkAccount[p], tkAccount'[p] } ]_vars

\* two calls for different emails were in their exchanges at the same time
\* and each email got the token of its own exchange
C34_Witness ==
    /\ Len(tokenRequests) = 2
    /\ tokenRequests[1].email = "a@x"
    /\ tokenRequests[1].caller = "c1"
    /\ tokenRequests[2].email = "b@x"
    /\ tokenRequests[2].caller = "c2"
    /\ tokenCache["a@x"].present
    /\ tokenCache["a@x"].accessToken = 1
    /\ tokenCache["b@x"].present
    /\ tokenCache["b@x"].accessToken = 2
    /\ tkOutcome["c1"].answer = "ok"
    /\ tkOutcome["c2"].answer = "ok"
    /\ tkOutcome["c1"].expiresIn = Given(3599)
    /\ tkOutcome["c2"].expiresIn = Given(3599)
    /\ clock = 0

-----------------------------------------------------------------------------
(* Claims about tool calls under way at the same time (SpecCalls)           *)

InFlight == { c \in ToolCalls : tcPc[c] = "suspended" }

\* C36: selectAccount reads and advances currentIndex within one step of a
\* call, so no increment is lost however the calls interleave: the calls
\* under way all read different values of the counter, each start advances
\* it by exactly one, and calls whose reads are fewer than K apart, K being
\* the length of the sequence of accounts, hold different accounts; K calls
\* started one after the other while none has ended hold K different ones.
C36_ConcurrentCallsGetDistinctAccounts ==
    /\ [](/\ \A c, d \in InFlight : c # d => tcTicket[c] # tcTicket[d]
          /\ \A c \in InFlight :
                /\ tcTicket[c] < currentIndex
                /\ tcAccount[c] = tcAccounts[(tcTicket[c] % Len(tcAccounts)) + 1]
          /\ \A c, d \in InFlight :
                (c # d /\ tcTicket[c] - tcTicket[d] \in 1..(Len(tcAccounts) - 1)) =>
                    tcAccount[c] # tcAccount[d]
          /\ (Cardinality(InFlight) = Len(tcAccounts)
              /\ \A c \in InFlight : tcTicket[c] >= currentIndex - Len(tcAccounts)) =>
                 Cardinality({ tcAccount[c] : c \in InFlight }) = Len(tcAccounts))
    /\ [][ \A c \in ToolCalls :
              (tcPc[c] = "idle" /\ tcPc'[c] = "suspended") =>
                  /\ currentIndex' = currentIndex + 1
                  /\ tcTicket'[c] = currentIndex ]_vars

\* three calls under way over three accounts, started after an earlier call
\* had come and gone: each holds an account of its own
C36_Witness ==
    /\ Len(tcAccounts) = 3
    /\ InFlight = ToolCalls
    /\ currentIndex = 4
    /\ { tcTicket[c] : c \in ToolCalls } = { 1, 2, 3 }
    /\ { tcAccount[c] : c \in ToolCalls } = Emails

-----------------------------------------------------------------------------
(* Claims about removing an account (SpecStore)                             *)

\* the records the primary file gives: none unless it is an object with a
\* list of accounts
PersistedRecords(file) == IF file.kind = "json" THEN file.accounts ELSE << >>

\* the sequence without the records of the email, the others in their order
RECURSIVE WithoutEmail(_, _)
WithoutEmail(records, email) ==
    IF Len(records) = 0 THEN << >>
    ELSE IF records[1].email = email THEN WithoutEmail(Tail(records), email)
    ELSE << records[1] >> \o WithoutEmail(Tail(records), email)

\* C37: removeAccount(email) returns false and writes nothing when the
\* primary store has no record with that email; otherwise it returns true
\* and the persisted store is the previous sequence without the records of
\* that email, the other records unchanged and in the same order.
C37_RemoveAccountFrame ==
    [][ (lastOp'.op = "removeAccount") =>
            LET before == PersistedRecords(primary)
                email  == lastOp'.email
            IN  IF \A i \in 1..Len(before) : before[i].email # email
                THEN /\ lastOp'.flag = FALSE
                     /\ primary' = primary
                     /\ fallback' = fallback
                ELSE /\ lastOp'.flag = TRUE
                     /\ primary'.kind = "json"
                     /\ primary'.accounts = WithoutEmail(before, email)
                     /\ fallback' = fallback ]_vars

\* a record was removed from a store of two and the other one is still there
C37_Witness ==
    /\ lastOp.op = "removeAccount"
    /\ lastOp.flag
    /\ lastOp.email = "a@x"
    /\ primary.kind = "json"
    /\ Len(primary.accounts) = 1
    /\ primary.accounts[1].email = "b@x"
    /\ primary.accounts[1].isInvalid

-----------------------------------------------------------------------------
(* Claims about the OAuth callback wait (SpecOAuth, SpecOAuthFair)          *)

\* the step handles a request
HandlesRequest == oaCount' = oaCount + 1

\* the request the step handles, and the status it is answered with
Handled == oaLast'[1].request
AnsweredWith == oaLast'[1].status

\* what every request does, whatever its error parameter
CallbackRules ==
    /\ (HandlesRequest /\ Handled.path = CallbackPath /\ Handled.state # Name(oaExpected)) =>
          /\ AnsweredWith = 400
          /\ oaWait'.status # "resolved" \/ oaWait' = oaWait
          /\ oaWait.status = "pending" => oaWait'.status = "rejected"
    /\ (HandlesRequest /\ Handled.path # CallbackPath) =>
          /\ AnsweredWith = 404
          /\ oaWait' = oaWait
          /\ oaListener' = oaListener
          /\ oaTimer' = oaTimer

\* the wait is resolved in this step
Resolves == oaWait.status = "pending" /\ oaWait'.status = "resolved"

\* C38 as stated: the wait resolves only for a request to /oauth-callback
\* that carries no error parameter, the expected state and a non-empty code,
\* and with that code; a request whose state does not match rejects the wait
\* and never resolves it; a request to another path is answered 404 and
\* leaves the wait as it is.
C38_ResolvesOnlyWithoutErrorParameter ==
    [][ /\ Resolves =>
              /\ HandlesRequest
              /\ Handled.path = CallbackPath
              /\ ~Handled.error.present
              /\ Handled.state = Name(oaExpected)
              /\ Handled.code.present
              /\ Len(Handled.code.text) > 0
              /\ oaWait'.code = Handled.code.text
        /\ CallbackRules ]_vars

\* C38: the wait resolves only for a request to /oauth-callback whose error
\* parameter is missing or empty, whose state equals the expected state and
\* whose code is non-empty, and with that code; a request whose state does
\* not match rejects the wait and never resolves it; a request to another
\* path is answered 404 and leaves the wait as it is.
C38_ResolvesOnlyForAcceptedCallback ==
    [][ /\ Resolves =>
              /\ HandlesRequest
              /\ Handled.path = CallbackPath
              /\ ~Handled.error.present \/ Len(Handled.error.text) = 0
              /\ Handled.state = Name(oaExpected)
              /\ Handled.code.present
              /\ Len(Handled.code.text) > 0
              /\ oaWait'.code = Handled.code.text
              /\ AnsweredWith = 200
        /\ CallbackRules ]_vars

\* after a request that left the wait pending, the callback with the
\* expected state and a code has resolved the wait with that code
C38_Witness ==
    /\ oaWait.status = "resolved"
    /\ oaWait.code = << "c", "1" >>
    /\ oaCount = 2
    /\ oaLast[1].status = 200
    /\ oaLast[1].request.path = CallbackPath
    /\ ~oaLast[1].request.error.present
    /\ oaLast[1].request.state = Name(oaExpected)
    /\ oaListener = "closed"
    /\ oaTimer = "cleared"
    /\ ~oaAborted
    /\ ~oaConn

Settled == oaWait.status # "pending"

\* C39: the wait always eventually settles, and settles once: its outcome
\* never changes afterwards; whenever it has settled the listener is not
\* listening; and after abort() the listener is not listening and the wait
\* is not left pending.
C39_WaitAlwaysSettles ==
    /\ <>Settled
    /\ [][ Settled => oaWait' = oaWait ]_vars
    /\ [](Settled => oaListener \in { "closed", "failed" })
    /\ [](oaAborted => oaListener \in { "closed", "failed" })
    /\ (oaAborted ~> Settled)

\* everything C39 says of a wait on which abort() is not called while it is
\* pending
SettlesUnlessAborted ==
    /\ <>(Settled \/ oaAborted)
    /\ [][ Settled => oaWait' = oaWait ]_vars
    /\ [](Settled => oaListener \in { "closed", "failed" })
    /\ [](oaAborted => oaListener \in { "closed", "failed" })

\* abort() was called on a pending wait: nothing is left that could settle it
AbortedWhilePending ==
    /\ oaAborted
    /\ oaWait.status = "pending"
    /\ oaTimer = "cleared"
    /\ oaListener = "closed"
    /\ ~oaConn

-----------------------------------------------------------------------------
(* Claims about listModels (SpecApi)                                        *)

ListReturned == apiPc = "returned" /\ apiCall.fn = "listModels"

\* the endpoint answers with a success status and a body with a models map
AnswersWithModels(answer) ==
    /\ answer.kind = "http"
    /\ answer.status >= 200
    /\ answer.status <= 299
    /\ answer.body.form = "models"

\* the number of the first endpoint that does, one past the last if none does
FirstWithModels(answers) ==
    IF \E i \in 1..Len(answers) : AnswersWithModels(answers[i])
    THEN CHOOSE i \in 1..Len(answers) :
            /\ AnswersWithModels(answers[i])
            /\ \A j \in 1..(i - 1) : ~AnswersWithModels(answers[j])
    ELSE Len(answers) + 1

\* C40: listModels asks the endpoints in list order and returns the models
\* of the Gemini family of the first endpoint that answers with success and
\* a models map; every failure before that (an error status, 4xx included,
\* a network error, a body without models) moves on to the next endpoint;
\* the call fails, with 'Failed to fetch models from all endpoints', only
\* when every endpoint failed.
C40_ListModelsFirstUsableEndpoint ==
    ListReturned =>
        LET first    == FirstWithModels(apiCall.answers)
            returned == apiReturn.step[1]
        IN  /\ \A k \in 1..Len(returned.asked) : returned.asked[k] = API_ENDPOINTS[k]
            /\ IF first <= Len(API_ENDPOINTS)
               THEN /\ returned.outcome.act = "return"
                    /\ Len(returned.asked) = first
                    /\ returned.outcome.result =
                          << << "g", "e", "m", "i", "n", "i", "-", "3", "-", "f", "l", "a", "s", "h" >> >>
               ELSE /\ returned.outcome.act = "throw"
                    /\ Len(returned.asked) = Len(API_ENDPOINTS)
                    /\ returned.outcome.error.message =
                          << "F", "a", "i", "l", "e", "d", " ", "t", "o", " ", "f", "e", "t", "c", "h",
                             " ", "m", "o", "d", "e", "l", "s", " ", "f", "r", "o", "m", " ", "a", "l",
                             "l", " ", "e", "n", "d", "p", "o", "i", "n", "t", "s" >>

\* the first endpoint answers 404 and the second with a models map: the
\* models of the second are returned
C40_Witness ==
    /\ ListReturned
    /\ apiCall.answers[1].kind = "http"
    /\ apiCall.answers[1].status = 404
    /\ AnswersWithModels(apiCall.answers[2])
    /\ apiReturn.step[1].outcome.act = "return"
    /\ Len(apiReturn.step[1].outcome.result) = 1
    /\ Len(apiReturn.step[1].asked) = 2


=============================================================================
